---- MODULE Spec2Model ----
(***************************************************************************)
(* A model of deep-diff's comparison pipeline (src/deep_diff/core):        *)
(* FileFilter.scan, StructureComparator, ContentComparator, TextComparator *)
(* and the Comparator orchestrator.                                        *)
(*                                                                         *)
(* Strings and byte strings are sequences of code points, so that          *)
(* splitting, joining, prefix tests, glob matching and lexicographic       *)
(* sorting are computed as the code computes them.  Python's 0-based       *)
(* indices are kept; At(s, i) reads s[i].                                  *)
(*                                                                         *)
(* Three specifications share the variables:                               *)
(*   Spec      Comparator.compare, step by step, on two paths              *)
(*   SpecScan  FileFilter.scan, one os.walk iteration per step             *)
(*   SpecText  TextComparator.compare on two files                         *)
(***************************************************************************)
EXTENDS Integers, Sequences, FiniteSets, TLC

VARIABLES
    fs,           \* the filesystem: path id -> node (missing, file, dir)
    left,         \* the left path argument
    right,        \* the right path argument
    config,       \* constructor arguments (depth, filter_config, context_lines)
    pc,           \* position in the running operation
    depth,        \* Comparator.compare: the resolved depth
    comparisons,  \* the tuple of FileComparison produced so far
    result,       \* the returned value (DiffResult, FileComparison or scan tuple)
    error,        \* the exception raised, or None
    data,         \* TextComparator.compare: <<left_bytes, right_bytes>>
    walk,         \* FileFilter.scan: the state of the os.walk loop
    resolver,     \* GitResolver: its fields _tmpdirs and _repo_root
    git           \* the temporary directories on disk and the git calls made

vars == <<fs, left, right, config, pc, depth, comparisons, result, error, data, walk,
          resolver, git>>

\* None for an optional string, path, digest, similarity or result: those are
\* sequences, and the absent one is the empty sequence.  An absent depth or
\* error is the string NoValue.
None == <<>>

NoValue == "None"

-----------------------------------------------------------------------------
(* Code points used by the code and by the pattern languages it calls.     *)

NUL == 0
LF == 10
CR == 13
BANG == 33
HASH == 35
STAR == 42
DOT == 46
SLASH == 47
QMARK == 63
LBRACKET == 91
RBRACKET == 93
REPLACEMENT_CHAR == 65533

Min(a, b) == IF a <= b THEN a ELSE b

Max(a, b) == IF a >= b THEN a ELSE b

\* s[i] with Python's 0-based index
At(s, i) == s[i + 1]

\* s[lo:hi]
Slice(s, lo, hi) == SubSeq(s, Max(lo, 0) + 1, Min(hi, Len(s)))

\* s[lo:]
SliceFrom(s, lo) == SubSeq(s, Max(lo, 0) + 1, Len(s))

\* str.startswith
StartsWith(s, prefix) ==
    /\ Len(prefix) <= Len(s)
    /\ SubSeq(s, 1, Len(prefix)) = prefix

\* index of the first sep at or after 0-based position i, or -1
RECURSIVE Find(_, _, _)
Find(s, sep, i) ==
    IF i >= Len(s) THEN -1
    ELSE IF At(s, i) = sep THEN i
    ELSE Find(s, sep, i + 1)

\* str.split(sep) for a one-character separator
RECURSIVE Split(_, _)
Split(s, sep) ==
    LET k == Find(s, sep, 0)
    IN  IF k = -1 THEN <<s>>
        ELSE <<Slice(s, 0, k)>> \o Split(SliceFrom(s, k + 1), sep)

\* sep.join(parts)
RECURSIVE Join(_, _)
Join(parts, sep) ==
    IF parts = <<>> THEN <<>>
    ELSE IF Len(parts) = 1 THEN parts[1]
    ELSE parts[1] \o <<sep>> \o Join(Tail(parts), sep)

\* a < b for two strings (lexicographic by code point)
RECURSIVE LexLess(_, _)
LexLess(a, b) ==
    IF b = <<>> THEN FALSE
    ELSE IF a = <<>> THEN TRUE
    ELSE IF a[1] # b[1] THEN a[1] < b[1]
    ELSE LexLess(Tail(a), Tail(b))

\* list.sort(): insertion of x into a sorted list, after its equals
RECURSIVE InsertSorted(_, _)
InsertSorted(x, s) ==
    IF s = <<>> THEN <<x>>
    ELSE IF LexLess(x, s[1]) THEN <<x>> \o s
    ELSE <<s[1]>> \o InsertSorted(x, Tail(s))

\* the list left in the order it was built
Unsorted(s) == s

\* list.sort() of a list of strings
RECURSIVE SortList(_)
SortList(s) ==
    IF s = <<>> THEN <<>>
    ELSE InsertSorted(s[Len(s)], SortList(SubSeq(s, 1, Len(s) - 1)))

\* sorted(S) of a set of strings
RECURSIVE sorted(_)
sorted(S) ==
    IF S = {} THEN <<>>
    ELSE LET m == CHOOSE x \in S : \A y \in S : x = y \/ LexLess(x, y)
         IN  <<m>> \o sorted(S \ {m})

\* set(seq)
ToSet(s) == {s[i] : i \in 1..Len(s)}

-----------------------------------------------------------------------------
(* Decoding and line splitting (bytes.decode, str.splitlines).             *)

\* bytes.decode("utf-8", errors="replace") on the bytes of the model's
\* alphabet: an ASCII byte is its own code point; a byte that can start no
\* UTF-8 sequence (0x80..0xC1, 0xF5..0xFF) becomes U+FFFD.
decode_byte(b) ==
    IF b < 128 THEN b ELSE REPLACEMENT_CHAR

decode(bytes) == [i \in 1..Len(bytes) |-> decode_byte(bytes[i])]

\* the line boundaries of str.splitlines
LineBreaks == {10, 11, 12, 13, 28, 29, 30, 133, 8232, 8233}

\* length of the first line of s including its terminator (s non-empty)
FirstLineLen(s, i) ==
    LET breaks == {k \in i..(Len(s) - 1) : At(s, k) \in LineBreaks}
    IN  IF breaks = {} THEN Len(s)
        ELSE LET k == CHOOSE x \in breaks : \A y \in breaks : x <= y
             IN  IF At(s, k) = CR /\ k + 1 < Len(s) /\ At(s, k + 1) = LF
                 THEN k + 2 ELSE k + 1

\* str.splitlines(keepends=True)
RECURSIVE splitlines_keepends(_)
splitlines_keepends(s) ==
    IF s = <<>> THEN <<>>
    ELSE LET n == FirstLineLen(s, 0)
         IN  <<Slice(s, 0, n)>> \o splitlines_keepends(SliceFrom(s, n))

\* a line without its terminator
StripTerminator(line) ==
    LET n == Len(line)
    IN  IF n >= 2 /\ line[n - 1] = CR /\ line[n] = LF THEN SubSeq(line, 1, n - 2)
        ELSE IF n >= 1 /\ line[n] \in LineBreaks THEN SubSeq(line, 1, n - 1)
        ELSE line

\* str.splitlines()
splitlines(s) ==
    LET ls == splitlines_keepends(s)
    IN  [i \in 1..Len(ls) |-> StripTerminator(ls[i])]

-----------------------------------------------------------------------------
(* fnmatch.fnmatch: shell-style glob on the whole string.  `*` matches any *)
(* run of characters ('/' included), `?` one character, `[seq]` and        *)
(* `[!seq]` one character in / not in seq (the patterns of the model use   *)
(* no ranges).  On POSIX os.path.normcase changes nothing.                 *)

\* fnmatch.translate: the 0-based index of the `]` closing the `[` at j, or
\* -1 when the `[` is a literal
RECURSIVE BracketScan(_, _)
BracketScan(pat, k) ==
    IF k >= Len(pat) THEN -1
    ELSE IF At(pat, k) = RBRACKET THEN k
    ELSE BracketScan(pat, k + 1)

BracketClose(pat, j) ==
    LET k1 == IF j + 1 < Len(pat) /\ At(pat, j + 1) = BANG THEN j + 2 ELSE j + 1
        k2 == IF k1 < Len(pat) /\ At(pat, k1) = RBRACKET THEN k1 + 1 ELSE k1
    IN  BracketScan(pat, k2)

BracketMatches(pat, j, close, c) ==
    LET stuff == Slice(pat, j + 1, close)
        negated == stuff[1] = BANG
        members == ToSet(IF negated THEN Tail(stuff) ELSE stuff)
    IN  IF negated THEN c \notin members ELSE c \in members

RECURSIVE FnMatchFrom(_, _, _, _)
FnMatchFrom(name, i, pat, j) ==
    IF j >= Len(pat) THEN i >= Len(name)
    ELSE IF At(pat, j) = STAR
         THEN \E k \in i..Len(name) : FnMatchFrom(name, k, pat, j + 1)
    ELSE IF i >= Len(name) THEN FALSE
    ELSE IF At(pat, j) = QMARK THEN FnMatchFrom(name, i + 1, pat, j + 1)
    ELSE IF At(pat, j) = LBRACKET /\ BracketClose(pat, j) # -1
         THEN /\ BracketMatches(pat, j, BracketClose(pat, j), At(name, i))
              /\ FnMatchFrom(name, i + 1, pat, BracketClose(pat, j) + 1)
    ELSE At(name, i) = At(pat, j) /\ FnMatchFrom(name, i + 1, pat, j + 1)

fnmatch(name, pat) == FnMatchFrom(name, 0, pat, 0)

-----------------------------------------------------------------------------
(* pathspec.GitIgnoreSpec: from_lines and match_file, for patterns made of *)
(* an optional leading `!`, an optional leading `/`, glob segments joined  *)
(* by `/` and an optional trailing `/` (the patterns of the model use no   *)
(* `**`, no escapes and no surrounding blanks).                            *)

\* one line of an ignore-rule file -> a pattern.  include is NoValue for a
\* blank line or a comment, "False" for a negation, "True" otherwise; a
\* pattern with no slash but a trailing one matches at any depth; a trailing
\* slash makes it directory-only.
gitignore_pattern(line) ==
    IF line = <<>> \/ line[1] = HASH \/ line = <<SLASH>>
    THEN [include |-> NoValue, any_depth |-> FALSE, dir_only |-> FALSE, segs |-> <<>>]
    ELSE LET negated == line[1] = BANG
             pattern == IF negated THEN Tail(line) ELSE line
             segs0 == Split(pattern, SLASH)
             is_dir == segs0[Len(segs0)] = <<>>
             leading == segs0[1] = <<>>
             any_depth == /\ ~leading
                          /\ \/ Len(segs0) = 1
                             \/ Len(segs0) = 2 /\ segs0[2] = <<>>
             segs1 == IF leading THEN Tail(segs0) ELSE segs0
             segs2 == IF segs1 # <<>> /\ segs1[Len(segs1)] = <<>>
                      THEN SubSeq(segs1, 1, Len(segs1) - 1) ELSE segs1
         IN  [include |-> IF negated THEN "False" ELSE "True",
              any_depth |-> any_depth, dir_only |-> is_dir, segs |-> segs2]

\* GitIgnoreSpec.from_lines
from_lines(lines) == [i \in 1..Len(lines) |-> gitignore_pattern(lines[i])]

\* one glob segment against one path segment: `*` alone is [^/]+
SegMatches(seg, name) ==
    IF seg = <<STAR>> THEN name # <<>> ELSE fnmatch(name, seg)

\* the path segments parts[s+1 .. s+Len(segs)] match the pattern's segments
SegsMatchAt(pat, parts, s) ==
    LET n == Len(pat.segs)
    IN  /\ s + n <= Len(parts)
        /\ \A k \in 1..n : SegMatches(pat.segs[k], parts[s + k])
        /\ (s > 0 => Join(SubSeq(parts, 1, s), SLASH) # <<>>)
        /\ (pat.dir_only => s + n < Len(parts))

\* the start positions at which the pattern's regex can match
MatchStarts(pat, parts) ==
    {s \in (IF pat.any_depth THEN 0..Len(parts) ELSE {0}) : SegsMatchAt(pat, parts, s)}

\* the regex match of one pattern: "none", "file" (matched to the end of the
\* path) or "dir" (matched a directory of the path: the directory marker).
\* The optional leading group is greedy, so the deepest start is taken.
match_kind(pat, parts, starts) ==
    IF pat.segs = <<>> \/ starts = {} THEN "none"
    ELSE IF (CHOOSE x \in starts : \A y \in starts : y <= x) + Len(pat.segs) < Len(parts)
    THEN "dir"
    ELSE "file"

pattern_match(pat, path) ==
    match_kind(pat, Split(path, SLASH), MatchStarts(pat, Split(path, SLASH)))

\* GitIgnoreSpec._match_file: the last matching pattern decides, except that
\* a pattern matching only through a directory does not undo an earlier
\* match of the file itself unless it ignores
RECURSIVE match_from(_, _, _, _, _)
match_step(spec, path, i, out_include, out_priority, include, m) ==
    IF m = "none" THEN match_from(spec, path, i + 1, out_include, out_priority)
    ELSE IF include = "True" /\ m = "dir" THEN match_from(spec, path, i + 1, include, 1)
    ELSE IF (IF m = "dir" THEN 1 ELSE 2) >= out_priority
         THEN match_from(spec, path, i + 1, include, IF m = "dir" THEN 1 ELSE 2)
    ELSE match_from(spec, path, i + 1, out_include, out_priority)

match_from(spec, path, i, out_include, out_priority) ==
    IF i > Len(spec) THEN out_include
    ELSE match_step(spec, path, i, out_include, out_priority, spec[i].include,
                    IF spec[i].include = NoValue THEN "none"
                    ELSE pattern_match(spec[i], path))

\* GitIgnoreSpec.match_file
match_file(spec, path) == match_from(spec, path, 1, NoValue, 0) = "True"

-----------------------------------------------------------------------------
(* FileFilter (filtering.py).  A directory tree is                         *)
(*   [dirs |-> the relative paths of its subdirectories,                   *)
(*    files |-> relative path -> bytes]                                    *)
(* and a FilterConfig a record of its four fields.                         *)

GITIGNORE_FILENAME == <<46, 103, 105, 116, 105, 103, 110, 111, 114, 101>>

HIDDEN_PREFIX == <<DOT>>

_join_posix(directory, name) ==
    IF directory # <<>> THEN directory \o <<SLASH>> \o name ELSE name

_ancestor_dirs(rel_path) ==
    LET parts == Split(rel_path, SLASH)
    IN  <<<<>>>> \o [i \in 1..(Len(parts) - 1) |-> Join(SubSeq(parts, 1, i), SLASH)]

_is_hidden(name) == StartsWith(name, HIDDEN_PREFIX)

\* every loaded spec consulted, whatever directory it was loaded from
_is_gitignored_any_loaded(relative_path, is_dir, gitignore_specs) ==
    \E ancestor \in DOMAIN gitignore_specs :
       match_file(gitignore_specs[ancestor],
                  (IF ancestor # <<>> /\ StartsWith(relative_path, ancestor \o <<SLASH>>)
                   THEN SliceFrom(relative_path, Len(ancestor) + 1)
                   ELSE relative_path) \o (IF is_dir THEN <<SLASH>> ELSE <<>>))

\* only the deepest loaded spec above the path consulted
_is_gitignored_nearest(relative_path, is_dir, gitignore_specs) ==
    LET ancestors == _ancestor_dirs(relative_path)
        loaded == {k \in 1..Len(ancestors) : ancestors[k] \in DOMAIN gitignore_specs}
    IN  \E k \in loaded :
           /\ \A j \in loaded : j <= k
           /\ match_file(gitignore_specs[ancestors[k]],
                         (IF ancestors[k] # <<>>
                          THEN SliceFrom(relative_path, Len(ancestors[k]) + 1)
                          ELSE relative_path) \o (IF is_dir THEN <<SLASH>> ELSE <<>>))

\* gitignore_specs is the dict rel_dir -> spec, a function on the loaded keys
_is_gitignored(relative_path, is_dir, gitignore_specs) ==
    IF DOMAIN gitignore_specs = {} THEN FALSE
    ELSE LET check_suffix == IF is_dir THEN <<SLASH>> ELSE <<>>
             ancestors == _ancestor_dirs(relative_path)
         IN  \E k \in 1..Len(ancestors) :
                LET ancestor == ancestors[k]
                    local_path == IF ancestor # <<>>
                                  THEN SliceFrom(relative_path, Len(ancestor) + 1)
                                  ELSE relative_path
                IN  /\ ancestor \in DOMAIN gitignore_specs
                    /\ match_file(gitignore_specs[ancestor], local_path \o check_suffix)

_matches_include(cfg, relative_path) ==
    IF cfg.include_patterns = <<>> THEN TRUE
    ELSE \E k \in 1..Len(cfg.include_patterns) :
            fnmatch(relative_path, cfg.include_patterns[k])

\* the blocklist yielding to the allowlist
_matches_exclude_unless_included(cfg, relative_path) ==
    /\ \E k \in 1..Len(cfg.exclude_patterns) :
          fnmatch(relative_path, cfg.exclude_patterns[k])
    /\ ~\E k \in 1..Len(cfg.include_patterns) :
          fnmatch(relative_path, cfg.include_patterns[k])

_matches_exclude(cfg, relative_path) ==
    IF cfg.exclude_patterns = <<>> THEN FALSE
    ELSE \E k \in 1..Len(cfg.exclude_patterns) :
            fnmatch(relative_path, cfg.exclude_patterns[k])

\* the directory part and the last segment of a relative path
Dirname(p) ==
    LET parts == Split(p, SLASH)
    IN  Join(SubSeq(parts, 1, Len(parts) - 1), SLASH)

Basename(p) ==
    LET parts == Split(p, SLASH)
    IN  parts[Len(parts)]

\* what os.walk yields for rel_dir: the names of its subdirectories and files
DirNames(tree, rel_dir) == {Basename(d) : d \in {x \in tree.dirs : Dirname(x) = rel_dir}}

FileNames(tree, rel_dir) ==
    {Basename(f) : f \in {x \in DOMAIN tree.files : Dirname(x) = rel_dir}}

\* dict assignment d[k] = v
DictSet(d, k, v) == [x \in DOMAIN d \cup {k} |-> IF x = k THEN v ELSE d[x]]

EmptyDict == [x \in {} |-> NoValue]

\* the four layers applied to one file of rel_dir
file_passes(cfg, rel_dir, filename, gitignore_specs) ==
    LET rel_path == _join_posix(rel_dir, filename)
    IN  /\ ~(~cfg.include_hidden /\ _is_hidden(filename))
        /\ ~(cfg.respect_gitignore /\ _is_gitignored(rel_path, FALSE, gitignore_specs))
        /\ _matches_include(cfg, rel_path)
        /\ ~_matches_exclude(cfg, rel_path)

\* the pruning without the hidden layer
kept_dirnames_hidden_kept(tree, cfg, rel_dir, gitignore_specs) ==
    sorted(IF cfg.respect_gitignore
           THEN {d \in DirNames(tree, rel_dir) :
                   ~_is_gitignored(_join_posix(rel_dir, d), TRUE, gitignore_specs)}
           ELSE DirNames(tree, rel_dir))

\* the pruning with directories tested as files are, without the slash
kept_dirnames_as_files(tree, cfg, rel_dir, gitignore_specs) ==
    sorted({d \in DirNames(tree, rel_dir) :
              /\ cfg.include_hidden \/ ~_is_hidden(d)
              /\ ~(cfg.respect_gitignore
                   /\ _is_gitignored(_join_posix(rel_dir, d), FALSE, gitignore_specs))})

\* the subdirectories of rel_dir that os.walk will descend into, in order
kept_dirnames(tree, cfg, rel_dir, gitignore_specs) ==
    LET dirnames0 == DirNames(tree, rel_dir)
        dirnames1 == IF ~cfg.include_hidden
                     THEN {d \in dirnames0 : ~_is_hidden(d)} ELSE dirnames0
        dirnames2 == IF cfg.respect_gitignore
                     THEN {d \in dirnames1 :
                             ~_is_gitignored(_join_posix(rel_dir, d), TRUE, gitignore_specs)}
                     ELSE dirnames1
    IN  sorted(dirnames2)

\* one iteration of the os.walk loop of scan, for the directory on top of
\* the stack, with the directory's files enumerated in the order filenames.
\* The loop state is [stack, gitignore_specs, result].
walk_result(rel_dir, st, specs, dirnames, passing) ==
    [stack |-> [i \in 1..Len(dirnames) |-> _join_posix(rel_dir, dirnames[i])]
                 \o Tail(st.stack),
     gitignore_specs |-> specs,
     result |-> st.result \o [i \in 1..Len(passing) |-> _join_posix(rel_dir, passing[i])]]

\* the pruning and the file loop, specs being the dict after the load
walk_filter(tree, cfg, st, filenames, specs) ==
    walk_result(Head(st.stack), st, specs,
                kept_dirnames(tree, cfg, Head(st.stack), specs),
                SelectSeq(filenames,
                          LAMBDA f : file_passes(cfg, Head(st.stack), f, specs)))

\* the directory's own ignore-rule file replacing the rules read so far
load_gitignore_replacing(tree, cfg, rel_dir, gitignore_specs) ==
    IF cfg.respect_gitignore /\ _join_posix(rel_dir, GITIGNORE_FILENAME) \in DOMAIN tree.files
    THEN DictSet(EmptyDict, rel_dir,
                 from_lines(splitlines(decode(
                     tree.files[_join_posix(rel_dir, GITIGNORE_FILENAME)]))))
    ELSE gitignore_specs

\* the ignore-rule file read only when the hidden layer would let it through
load_gitignore_unless_hidden(tree, cfg, rel_dir, gitignore_specs) ==
    IF /\ cfg.respect_gitignore
       /\ cfg.include_hidden \/ ~_is_hidden(GITIGNORE_FILENAME)
       /\ _join_posix(rel_dir, GITIGNORE_FILENAME) \in DOMAIN tree.files
    THEN DictSet(gitignore_specs, rel_dir,
                 from_lines(splitlines(decode(
                     tree.files[_join_posix(rel_dir, GITIGNORE_FILENAME)]))))
    ELSE gitignore_specs

\* lines 86-90: the directory's own ignore-rule file is read into the dict
load_gitignore(tree, cfg, rel_dir, gitignore_specs) ==
    IF cfg.respect_gitignore /\ _join_posix(rel_dir, GITIGNORE_FILENAME) \in DOMAIN tree.files
    THEN DictSet(gitignore_specs, rel_dir,
                 from_lines(splitlines(decode(
                     tree.files[_join_posix(rel_dir, GITIGNORE_FILENAME)]))))
    ELSE gitignore_specs

\* the directory's own ignore-rule file read after its entries are tested
walk_iteration_load_last(tree, cfg, st, filenames) ==
    [walk_filter(tree, cfg, st, filenames, st.gitignore_specs)
        EXCEPT !.gitignore_specs = load_gitignore(tree, cfg, Head(st.stack),
                                                  st.gitignore_specs)]

walk_iteration(tree, cfg, st, filenames) ==
    walk_filter(tree, cfg, st, filenames,
                load_gitignore(tree, cfg, Head(st.stack), st.gitignore_specs))

\* GitResolver.__init__
NewResolver == [_tmpdirs |-> <<>>, _repo_root |-> NoValue]

\* no temporary directory on disk, none created, no git call made, no file
\* of a tree left to extract, the left argument to resolve first
GitStart == [exists |-> {}, created |-> 0, calls |-> 0, pending |-> 0, side |-> "left"]

WalkStart == [stack |-> <<<<>>>>, gitignore_specs |-> EmptyDict, result |-> <<>>]

\* the os.walk loop run to its end, each directory listed in sorted order
RECURSIVE walk_all(_, _, _)
walk_all(tree, cfg, st) ==
    IF st.stack = <<>> THEN st
    ELSE walk_all(tree, cfg,
                  walk_iteration(tree, cfg, st, sorted(FileNames(tree, Head(st.stack)))))

\* FileFilter.scan on a directory
scan(tree, cfg) == SortList(walk_all(tree, cfg, WalkStart).result)

-----------------------------------------------------------------------------
(* The filesystem.  A node is [kind, bytes, tree] with kind "missing",     *)
(* "file" or "dir"; a path is <<root, rel>>: a path id of fs and a         *)
(* relative path below it (empty for the root itself).                     *)

MissingNode == [kind |-> "missing", bytes |-> <<>>, tree |-> [dirs |-> {}, files |-> EmptyDict]]

FileNode(b) == [kind |-> "file", bytes |-> b, tree |-> [dirs |-> {}, files |-> EmptyDict]]

DirNode(t) == [kind |-> "dir", bytes |-> <<>>, tree |-> t]

\* root / rel_path
PathJoin(root, rel_path) == <<root[1], _join_posix(root[2], rel_path)>>

\* Path.exists, Path.is_dir, Path.is_file
exists(f, path) ==
    LET node == f[path[1]]
    IN  IF path[2] = <<>> THEN node.kind # "missing"
        ELSE node.kind = "dir"
             /\ (path[2] \in DOMAIN node.tree.files \/ path[2] \in node.tree.dirs)

is_dir(f, path) ==
    LET node == f[path[1]]
    IN  IF path[2] = <<>> THEN node.kind = "dir"
        ELSE node.kind = "dir" /\ path[2] \in node.tree.dirs

is_file(f, path) ==
    LET node == f[path[1]]
    IN  IF path[2] = <<>> THEN node.kind = "file"
        ELSE node.kind = "dir" /\ path[2] \in DOMAIN node.tree.files

\* Path.read_bytes of a regular file
read_bytes(f, path) ==
    LET node == f[path[1]]
    IN  IF path[2] = <<>> THEN node.bytes ELSE node.tree.files[path[2]]

\* Path.name
RootName(id) == IF id = "p" THEN <<112>> ELSE <<113>>

PathName(path) == IF path[2] = <<>> THEN RootName(path[1]) ELSE Basename(path[2])

-----------------------------------------------------------------------------
(* models.py: FileComparison, DiffStats, DiffResult.                       *)

\* a similarity is None or the fraction <<numerator, denominator>>
ONE == <<1, 1>>

IsOne(similarity) == similarity # None /\ similarity[1] = similarity[2]

FileComparison(relative_path, status, left_path, right_path, hunks, hl, hr, similarity) ==
    [relative_path |-> relative_path, status |-> status,
     left_path |-> left_path, right_path |-> right_path, hunks |-> hunks,
     content_hash_left |-> hl, content_hash_right |-> hr, similarity |-> similarity]

CountStatus(comps, status) == Cardinality({i \in 1..Len(comps) : comps[i].status = status})

\* the reduction with total_files counting the differing entries only
from_comparisons_total_changed(comps) ==
    [total_files |-> Len(comps) - CountStatus(comps, "identical"),
     identical |-> CountStatus(comps, "identical"),
     modified |-> CountStatus(comps, "modified"),
     added |-> CountStatus(comps, "added"),
     removed |-> CountStatus(comps, "removed")]

\* DiffStats.from_comparisons
from_comparisons(comps) ==
    [total_files |-> Len(comps),
     identical |-> CountStatus(comps, "identical"),
     modified |-> CountStatus(comps, "modified"),
     added |-> CountStatus(comps, "added"),
     removed |-> CountStatus(comps, "removed")]

-----------------------------------------------------------------------------
(* structure.py: StructureComparator.compare on two directories.           *)

\* the classification with the two one-sided branches exchanged
structure_entry_swapped(l, r, left_paths, right_paths, rel_path) ==
    LET in_left == rel_path \in left_paths
        in_right == rel_path \in right_paths
    IN  IF in_left /\ in_right
        THEN FileComparison(rel_path, "identical", PathJoin(l, rel_path),
                            PathJoin(r, rel_path), <<>>, None, None, None)
        ELSE IF in_right
        THEN FileComparison(rel_path, "removed", PathJoin(l, rel_path), None,
                            <<>>, None, None, None)
        ELSE FileComparison(rel_path, "added", None, PathJoin(r, rel_path),
                            <<>>, None, None, None)

\* the classification with the left path of a removed entry left unset
structure_entry_removed_unset(l, r, left_paths, right_paths, rel_path) ==
    LET in_left == rel_path \in left_paths
        in_right == rel_path \in right_paths
    IN  IF in_left /\ in_right
        THEN FileComparison(rel_path, "identical", PathJoin(l, rel_path),
                            PathJoin(r, rel_path), <<>>, None, None, None)
        ELSE IF in_left
        THEN FileComparison(rel_path, "removed", None, None, <<>>, None, None, None)
        ELSE FileComparison(rel_path, "added", None, PathJoin(r, rel_path),
                            <<>>, None, None, None)

structure_entry(l, r, left_paths, right_paths, rel_path) ==
    LET in_left == rel_path \in left_paths
        in_right == rel_path \in right_paths
    IN  IF in_left /\ in_right
        THEN FileComparison(rel_path, "identical", PathJoin(l, rel_path),
                            PathJoin(r, rel_path), <<>>, None, None, None)
        ELSE IF in_left
        THEN FileComparison(rel_path, "removed", PathJoin(l, rel_path), None,
                            <<>>, None, None, None)
        ELSE FileComparison(rel_path, "added", None, PathJoin(r, rel_path),
                            <<>>, None, None, None)

structure_entries(l, r, left_paths, right_paths, all_paths) ==
    [i \in 1..Len(all_paths) |->
        structure_entry(l, r, left_paths, right_paths, all_paths[i])]

\* the entries listed left scan first, then what only the right scan holds
structure_of_left_first(l, r, left_paths, right_paths) ==
    structure_entries(l, r, left_paths, right_paths,
                      sorted(left_paths) \o sorted(right_paths \ left_paths))

structure_of(l, r, left_paths, right_paths) ==
    structure_entries(l, r, left_paths, right_paths, sorted(left_paths \cup right_paths))

\* scans maps each of the two roots to the set of its scanned paths
structure_from(l, r, scans) == structure_of(l, r, scans[l[1]], scans[r[1]])

structure_compare(f, cfg, l, r) ==
    structure_from(l, r, [x \in {l[1], r[1]} |-> ToSet(scan(f[x].tree, cfg))])

-----------------------------------------------------------------------------
(* content.py: ContentComparator.compare on two regular files.             *)

\* _hash_file: the digest of the file's bytes under the hash algorithm.
\* Digests are taken to be collision-free: equal exactly for equal bytes.
_hash_file(f, hash_algo, path) == <<hash_algo>> \o read_bytes(f, path)

\* _validate_file: the exception it raises, or NoValue
_validate_file(f, path, label) ==
    IF ~exists(f, path) THEN "FileNotFoundError:" \o label
    ELSE IF is_dir(f, path) THEN "IsADirectoryError:" \o label
    ELSE NoValue

\* the exception ContentComparator.compare raises, or NoValue
content_compare_error(f, l, r) ==
    IF _validate_file(f, l, "Left") # NoValue THEN _validate_file(f, l, "Left")
    ELSE _validate_file(f, r, "Right")

\* the comparison leaving similarity at its default
content_compare_no_similarity(f, hash_algo, l, r, relative_path) ==
    LET rel == IF relative_path = <<>> THEN PathName(l) ELSE relative_path
        left_hash == _hash_file(f, hash_algo, l)
        right_hash == _hash_file(f, hash_algo, r)
    IN  FileComparison(rel, IF left_hash = right_hash THEN "identical" ELSE "modified",
                       l, r, <<>>, left_hash, right_hash, None)

\* the comparison deciding the status by the files' sizes
content_compare_by_size(f, hash_algo, l, r, relative_path) ==
    LET rel == IF relative_path = <<>> THEN PathName(l) ELSE relative_path
        left_hash == _hash_file(f, hash_algo, l)
        right_hash == _hash_file(f, hash_algo, r)
    IN  IF Len(read_bytes(f, l)) = Len(read_bytes(f, r))
        THEN FileComparison(rel, "identical", l, r, <<>>, left_hash, right_hash, ONE)
        ELSE FileComparison(rel, "modified", l, r, <<>>, left_hash, right_hash, None)

\* the comparison hashing the left file for both digests
content_compare_left_hash_twice(f, hash_algo, l, r, relative_path) ==
    LET rel == IF relative_path = <<>> THEN PathName(l) ELSE relative_path
        left_hash == _hash_file(f, hash_algo, l)
        right_hash == _hash_file(f, hash_algo, l)
    IN  IF left_hash = right_hash
        THEN FileComparison(rel, "identical", l, r, <<>>, left_hash, right_hash, ONE)
        ELSE FileComparison(rel, "modified", l, r, <<>>, left_hash, right_hash, None)

content_compare(f, hash_algo, l, r, relative_path) ==
    LET rel == IF relative_path = <<>> THEN PathName(l) ELSE relative_path
        left_hash == _hash_file(f, hash_algo, l)
        right_hash == _hash_file(f, hash_algo, r)
    IN  IF left_hash = right_hash
        THEN FileComparison(rel, "identical", l, r, <<>>, left_hash, right_hash, ONE)
        ELSE FileComparison(rel, "modified", l, r, <<>>, left_hash, right_hash, None)

-----------------------------------------------------------------------------
(* difflib.SequenceMatcher(None, a, b), as text.py uses it: ratio() and    *)
(* get_grouped_opcodes(n).  a and b are lists of lines; indices are        *)
(* 0-based and ranges half-open, as in difflib.                            *)

AUTOJUNK_MIN_LEN == 200

\* the "popular" elements of b that autojunk drops from the index b2j:
\* when b has at least 200 elements, those occurring more than 1% + 1 times
popular(b) ==
    IF Len(b) >= AUTOJUNK_MIN_LEN
    THEN {x \in ToSet(b) :
            Cardinality({j \in 1..Len(b) : b[j] = x}) > (Len(b) \div 100) + 1}
    ELSE {}

\* j2len[j] when the outer loop is at i: the length of the run of indexed
\* equal elements that ends at a[i], b[j] inside the window
RECURSIVE run_ending(_, _, _, _, _, _, _)
run_ending(a, b, pop, alo, blo, i, j) ==
    IF i < alo \/ j < blo THEN 0
    ELSE IF At(a, i) # At(b, j) \/ At(b, j) \in pop THEN 0
    ELSE 1 + run_ending(a, b, pop, alo, blo, i - 1, j - 1)

\* the first extension loop: backwards over equal elements (no element is junk)
RECURSIVE extend_back(_, _, _, _, _)
extend_back(a, b, alo, blo, m) ==
    IF m[1] > alo /\ m[2] > blo /\ At(a, m[1] - 1) = At(b, m[2] - 1)
    THEN extend_back(a, b, alo, blo, <<m[1] - 1, m[2] - 1, m[3] + 1>>)
    ELSE m

\* the second extension loop: forwards over equal elements
RECURSIVE extend_forward(_, _, _, _, _)
extend_forward(a, b, ahi, bhi, m) ==
    IF m[1] + m[3] < ahi /\ m[2] + m[3] < bhi /\ At(a, m[1] + m[3]) = At(b, m[2] + m[3])
    THEN extend_forward(a, b, ahi, bhi, <<m[1], m[2], m[3] + 1>>)
    ELSE m

\* find_longest_match(alo, ahi, blo, bhi) = <<besti, bestj, bestsize>>: the
\* longest run found through the index, the first one met with i then j
\* ascending, then extended on both sides
longest_run(k, hits, alo, blo) ==
    IF hits = {} THEN <<alo, blo, 0>>
    ELSE LET top == CHOOSE pr \in hits :
                      \A q \in hits :
                         \/ k[q] < k[pr]
                         \/ k[q] = k[pr] /\ pr[1] < q[1]
                         \/ k[q] = k[pr] /\ pr[1] = q[1] /\ pr[2] <= q[2]
         IN  <<top[1] - k[top] + 1, top[2] - k[top] + 1, k[top]>>

longest_in(k, alo, blo) == longest_run(k, {pr \in DOMAIN k : k[pr] > 0}, alo, blo)

find_longest_match(a, b, pop, alo, ahi, blo, bhi) ==
    extend_forward(a, b, ahi, bhi,
        extend_back(a, b, alo, blo,
            longest_in([pr \in (alo..(ahi - 1)) \X (blo..(bhi - 1)) |->
                           run_ending(a, b, pop, alo, blo, pr[1], pr[2])],
                       alo, blo)))

\* the matching blocks of the window, in the order matching_blocks.sort()
\* leaves them: those left of the longest match x, the match, those right of it
RECURSIVE blocks_in(_, _, _, _, _, _, _)
blocks_around(a, b, pop, alo, ahi, blo, bhi, x) ==
    IF x[3] = 0 THEN <<>>
    ELSE (IF alo < x[1] /\ blo < x[2]
          THEN blocks_in(a, b, pop, alo, x[1], blo, x[2]) ELSE <<>>)
         \o <<x>>
         \o (IF x[1] + x[3] < ahi /\ x[2] + x[3] < bhi
             THEN blocks_in(a, b, pop, x[1] + x[3], ahi, x[2] + x[3], bhi) ELSE <<>>)

blocks_in(a, b, pop, alo, ahi, blo, bhi) ==
    blocks_around(a, b, pop, alo, ahi, blo, bhi,
                  find_longest_match(a, b, pop, alo, ahi, blo, bhi))

\* the loop collapsing adjacent blocks; cur is <<i1, j1, k1>>
RECURSIVE collapse(_, _, _)
collapse(blocks, idx, cur) ==
    IF idx > Len(blocks)
    THEN IF cur[3] # 0 THEN <<cur>> ELSE <<>>
    ELSE LET nxt == blocks[idx]
         IN  IF cur[1] + cur[3] = nxt[1] /\ cur[2] + cur[3] = nxt[2]
             THEN collapse(blocks, idx + 1, <<cur[1], cur[2], cur[3] + nxt[3]>>)
             ELSE (IF cur[3] # 0 THEN <<cur>> ELSE <<>>) \o collapse(blocks, idx + 1, nxt)

\* SequenceMatcher.get_matching_blocks, the sentinel <<la, lb, 0>> included
get_matching_blocks(a, b) ==
    collapse(blocks_in(a, b, popular(b), 0, Len(a), 0, Len(b)), 1, <<0, 0, 0>>)
        \o <<<<Len(a), Len(b), 0>>>>

RECURSIVE SumSizes(_)
SumSizes(blocks) ==
    IF blocks = <<>> THEN 0 ELSE blocks[1][3] + SumSizes(Tail(blocks))

\* the ratio without the case of two empty sequences
_calculate_ratio_no_empty_case(matches, length) ==
    IF length # 0
    THEN IF 2 * matches = length THEN ONE ELSE <<2 * matches, length>>
    ELSE <<0, 1>>

\* difflib._calculate_ratio: 2.0 * matches / length, 1.0 when length is 0
_calculate_ratio(matches, length) ==
    IF length # 0
    THEN IF 2 * matches = length THEN ONE ELSE <<2 * matches, length>>
    ELSE ONE

\* SequenceMatcher.ratio
ratio(a, b) == _calculate_ratio(SumSizes(get_matching_blocks(a, b)), Len(a) + Len(b))

Opcode(tag, i1, i2, j1, j2) == [tag |-> tag, i1 |-> i1, i2 |-> i2, j1 |-> j1, j2 |-> j2]

\* the loop of get_opcodes over the matching blocks, from position <<i, j>>
RECURSIVE opcodes_from(_, _, _, _)
opcodes_from(blocks, idx, i, j) ==
    IF idx > Len(blocks) THEN <<>>
    ELSE LET ai == blocks[idx][1]
             bj == blocks[idx][2]
             size == blocks[idx][3]
             tag == IF i < ai /\ j < bj THEN "replace"
                    ELSE IF i < ai THEN "delete"
                    ELSE IF j < bj THEN "insert"
                    ELSE ""
         IN  (IF tag # "" THEN <<Opcode(tag, i, ai, j, bj)>> ELSE <<>>)
             \o (IF size # 0 THEN <<Opcode("equal", ai, ai + size, bj, bj + size)>> ELSE <<>>)
             \o opcodes_from(blocks, idx + 1, ai + size, bj + size)

\* SequenceMatcher.get_opcodes
get_opcodes(a, b) == opcodes_from(get_matching_blocks(a, b), 1, 0, 0)

\* the main loop of get_grouped_opcodes: the groups yielded from codes[idx]
\* on, group being the group under construction
RECURSIVE grouping_loop(_, _, _, _)
grouping_loop(codes, idx, group, n) ==
    IF idx > Len(codes)
    THEN IF group # <<>> /\ ~(Len(group) = 1 /\ group[1].tag = "equal")
         THEN <<group>> ELSE <<>>
    ELSE LET c == codes[idx]
         IN  IF c.tag = "equal" /\ c.i2 - c.i1 > n + n
             THEN <<group \o <<Opcode(c.tag, c.i1, Min(c.i2, c.i1 + n),
                                      c.j1, Min(c.j2, c.j1 + n))>>>>
                  \o grouping_loop(codes, idx + 1,
                                   <<Opcode(c.tag, Max(c.i1, c.i2 - n), c.i2,
                                            Max(c.j1, c.j2 - n), c.j2)>>, n)
             ELSE grouping_loop(codes, idx + 1, group \o <<c>>, n)

\* "if not codes: codes = [("equal", 0, 1, 0, 1)]"
codes_or_default(codes) ==
    IF codes = <<>> THEN <<Opcode("equal", 0, 1, 0, 1)>> ELSE codes

\* the fixup of a leading equal opcode
fix_leading(codes, n) ==
    IF codes[1].tag = "equal"
    THEN [codes EXCEPT ![1] = Opcode("equal", Max(@.i1, @.i2 - n), @.i2,
                                     Max(@.j1, @.j2 - n), @.j2)]
    ELSE codes

\* the fixup of a trailing equal opcode
fix_trailing(codes, n) ==
    IF codes[Len(codes)].tag = "equal"
    THEN [codes EXCEPT ![Len(codes)] = Opcode("equal", @.i1, Min(@.i2, @.i1 + n),
                                              @.j1, Min(@.j2, @.j1 + n))]
    ELSE codes

\* SequenceMatcher.get_grouped_opcodes(n)
get_grouped_opcodes(a, b, n) ==
    grouping_loop(fix_trailing(fix_leading(codes_or_default(get_opcodes(a, b)), n), n),
                  1, <<>>, n)

-----------------------------------------------------------------------------
(* text.py: TextComparator.                                                *)

_BINARY_SAMPLE_BYTES == 8192

\* the null byte looked for in the whole file
_is_binary_whole_file(bytes) == NUL \in ToSet(bytes)

_is_binary(bytes) == NUL \in ToSet(Slice(bytes, 0, _BINARY_SAMPLE_BYTES))

\* the binary comparison reporting 0.0 for unequal bytes
_compare_binary_zero(left_bytes, right_bytes, relative_path, left_path, right_path) ==
    IF left_bytes = right_bytes
    THEN FileComparison(relative_path, "identical", left_path, right_path,
                        <<>>, None, None, ONE)
    ELSE FileComparison(relative_path, "modified", left_path, right_path,
                        <<>>, None, None, <<0, 1>>)

_compare_binary(left_bytes, right_bytes, relative_path, left_path, right_path) ==
    IF left_bytes = right_bytes
    THEN FileComparison(relative_path, "identical", left_path, right_path,
                        <<>>, None, None, ONE)
    ELSE FileComparison(relative_path, "modified", left_path, right_path,
                        <<>>, None, None, None)

TextChange(change_type, content, line_left, line_right) ==
    [change_type |-> change_type, content |-> content,
     line_left |-> line_left, line_right |-> line_right]

\* a line number that is set
Line(n) == <<n>>

\* the replace branch with the two loops in the other order
changes_from_inserts_first(c, lefts, rights) ==
    IF c.tag = "equal"
    THEN [k \in 1..Len(lefts) |->
            TextChange("equal", lefts[k], Line(c.i1 + k), Line(c.j1 + k))]
    ELSE IF c.tag = "delete"
    THEN [k \in 1..Len(lefts) |-> TextChange("delete", lefts[k], Line(c.i1 + k), None)]
    ELSE IF c.tag = "insert"
    THEN [k \in 1..Len(rights) |-> TextChange("insert", rights[k], None, Line(c.j1 + k))]
    ELSE IF c.tag = "replace"
    THEN [k \in 1..Len(rights) |->
            TextChange("insert", rights[k], None, Line(c.j1 + k))]
         \o [k \in 1..Len(lefts) |-> TextChange("delete", lefts[k], Line(c.i1 + k), None)]
    ELSE <<>>

\* the entries numbered from 0, as the opcodes are
changes_from_zero_based(c, lefts, rights) ==
    IF c.tag = "equal"
    THEN [k \in 1..Len(lefts) |->
            TextChange("equal", lefts[k], Line(c.i1 + k - 1), Line(c.j1 + k - 1))]
    ELSE IF c.tag = "delete"
    THEN [k \in 1..Len(lefts) |-> TextChange("delete", lefts[k], Line(c.i1 + k - 1), None)]
    ELSE IF c.tag = "insert"
    THEN [k \in 1..Len(rights) |->
            TextChange("insert", rights[k], None, Line(c.j1 + k - 1))]
    ELSE IF c.tag = "replace"
    THEN [k \in 1..Len(lefts) |-> TextChange("delete", lefts[k], Line(c.i1 + k - 1), None)]
         \o [k \in 1..Len(rights) |->
               TextChange("insert", rights[k], None, Line(c.j1 + k - 1))]
    ELSE <<>>

\* the entries one opcode contributes, lefts being left_lines[i1:i2] and
\* rights right_lines[j1:j2]
changes_from(c, lefts, rights) ==
    IF c.tag = "equal"
    THEN [k \in 1..Len(lefts) |->
            TextChange("equal", lefts[k], Line(c.i1 + k), Line(c.j1 + k))]
    ELSE IF c.tag = "delete"
    THEN [k \in 1..Len(lefts) |-> TextChange("delete", lefts[k], Line(c.i1 + k), None)]
    ELSE IF c.tag = "insert"
    THEN [k \in 1..Len(rights) |-> TextChange("insert", rights[k], None, Line(c.j1 + k))]
    ELSE IF c.tag = "replace"
    THEN [k \in 1..Len(lefts) |-> TextChange("delete", lefts[k], Line(c.i1 + k), None)]
         \o [k \in 1..Len(rights) |->
               TextChange("insert", rights[k], None, Line(c.j1 + k))]
    ELSE <<>>

changes_of(c, left_lines, right_lines) ==
    changes_from(c, Slice(left_lines, c.i1, c.i2), Slice(right_lines, c.j1, c.j2))

RECURSIVE _build_changes(_, _, _)
_build_changes(group, left_lines, right_lines) ==
    IF group = <<>> THEN <<>>
    ELSE changes_of(group[1], left_lines, right_lines)
         \o _build_changes(Tail(group), left_lines, right_lines)

Hunk(group, left_lines, right_lines) ==
    LET first == group[1]
        last == group[Len(group)]
    IN  [start_left |-> first.i1 + 1,
         count_left |-> last.i2 - first.i1,
         start_right |-> first.j1 + 1,
         count_right |-> last.j2 - first.j1,
         changes |-> _build_changes(group, left_lines, right_lines)]

\* the loop of _build_hunks returning after its first group
hunks_of_first_only(groups, left_lines, right_lines) ==
    [g \in 1..Min(1, Len(groups)) |-> Hunk(groups[g], left_lines, right_lines)]

hunks_of(groups, left_lines, right_lines) ==
    [g \in 1..Len(groups) |-> Hunk(groups[g], left_lines, right_lines)]

\* the grouping with difflib's default context whatever context_lines is
_build_hunks_default_context(left_lines, right_lines, context_lines) ==
    hunks_of(get_grouped_opcodes(left_lines, right_lines, 3), left_lines, right_lines)

_build_hunks(left_lines, right_lines, context_lines) ==
    hunks_of(get_grouped_opcodes(left_lines, right_lines, context_lines),
             left_lines, right_lines)

\* _compare_text once the matcher's ratio is known
compare_lines(left_lines, right_lines, relative_path, left_path, right_path, n, similarity) ==
    IF IsOne(similarity)
    THEN FileComparison(relative_path, "identical", left_path, right_path,
                        <<>>, None, None, ONE)
    ELSE FileComparison(relative_path, "modified", left_path, right_path,
                        _build_hunks(left_lines, right_lines, n),
                        None, None, similarity)

\* _compare_text once both texts are split into lines
compare_split(left_lines, right_lines, relative_path, left_path, right_path, n) ==
    compare_lines(left_lines, right_lines, relative_path, left_path, right_path,
                  n, ratio(left_lines, right_lines))

_compare_text(left_bytes, right_bytes, relative_path, left_path, right_path, n) ==
    compare_split(splitlines_keepends(decode(left_bytes)),
                  splitlines_keepends(decode(right_bytes)),
                  relative_path, left_path, right_path, n)

\* TextComparator.compare once both files are read
text_compare_bytes(left_bytes, right_bytes, l, r, relative_path, context_lines) ==
    LET rel == IF relative_path = <<>> THEN PathName(l) ELSE relative_path
    IN  IF _is_binary(left_bytes) \/ _is_binary(right_bytes)
        THEN _compare_binary(left_bytes, right_bytes, rel, l, r)
        ELSE _compare_text(left_bytes, right_bytes, rel, l, r, context_lines)

\* TextComparator.compare
text_compare(f, l, r, relative_path, context_lines) ==
    text_compare_bytes(read_bytes(f, l), read_bytes(f, r), l, r, relative_path,
                       context_lines)

-----------------------------------------------------------------------------
(* git/resolver.py: GitResolver.  A temporary directory is the number of  *)
(* its creation.                                                           *)

_GIT_PREFIX == <<103, 105, 116, 58>>

is_git_ref(value) == StartsWith(value, _GIT_PREFIX)

\* __exit__ cleaning up the last temporary directory of the list only
cleanup_last(tmpdirs, existing) ==
    existing \ (IF tmpdirs = <<>> THEN {} ELSE {tmpdirs[Len(tmpdirs)]})

\* the loop of __exit__: cleanup() of every temporary directory of the list
cleanup(tmpdirs, existing) == existing \ ToSet(tmpdirs)

-----------------------------------------------------------------------------
(* comparator.py: Comparator.  config is                                   *)
(*   [depth, filter_config, context_lines, hash_algo]                      *)
(* with depth NoValue for auto-detection.                                  *)

DEFAULT_CONTEXT_LINES == 3

\* the validation testing the right path first
_validate_paths_exist_right_first(f, l, r) ==
    IF ~exists(f, r) THEN "FileNotFoundError:Right path does not exist"
    ELSE IF ~exists(f, l) THEN "FileNotFoundError:Left path does not exist"
    ELSE NoValue

\* _validate_paths_exist: the exception it raises, or NoValue
_validate_paths_exist(f, l, r) ==
    IF ~exists(f, l) THEN "FileNotFoundError:Left path does not exist"
    ELSE IF ~exists(f, r) THEN "FileNotFoundError:Right path does not exist"
    ELSE NoValue

\* the auto-detection taking one directory for two
_resolve_depth_any_dir(f, cfg, l, r) ==
    IF cfg.depth # NoValue THEN [depth |-> cfg.depth, error |-> NoValue]
    ELSE IF is_dir(f, l) \/ is_dir(f, r)
    THEN [depth |-> "structure", error |-> NoValue]
    ELSE [depth |-> "text", error |-> NoValue]

\* the resolution that detects the depth even when one is given
_resolve_depth_always_auto(f, cfg, l, r) ==
    IF is_dir(f, l) /\ is_dir(f, r) THEN [depth |-> "structure", error |-> NoValue]
    ELSE IF ~is_dir(f, l) /\ ~is_dir(f, r) THEN [depth |-> "text", error |-> NoValue]
    ELSE [depth |-> NoValue,
          error |-> "ValueError:Cannot compare a file with a directory"]

\* _resolve_depth: [depth, error], one of them NoValue
_resolve_depth(f, cfg, l, r) ==
    IF cfg.depth # NoValue THEN [depth |-> cfg.depth, error |-> NoValue]
    ELSE LET left_is_dir == is_dir(f, l)
             right_is_dir == is_dir(f, r)
         IN  IF left_is_dir /\ right_is_dir
             THEN [depth |-> "structure", error |-> NoValue]
             ELSE IF ~left_is_dir /\ ~right_is_dir
             THEN [depth |-> "text", error |-> NoValue]
             ELSE [depth |-> NoValue,
                   error |-> "ValueError:Cannot compare a file with a directory"]

\* the exception StructureComparator.compare raises (from the first scan
\* whose root is not a directory), or NoValue
structure_error(f, l, r) ==
    IF ~is_dir(f, l) THEN "NotADirectoryError:Left"
    ELSE IF ~is_dir(f, r) THEN "NotADirectoryError:Right"
    ELSE NoValue

\* the enrichment calling the comparator without the relative_path label
content_enrich_no_label(f, cfg, structure_comparisons) ==
    [i \in 1..Len(structure_comparisons) |->
        LET fc == structure_comparisons[i]
        IN  IF fc.left_path # None /\ fc.right_path # None
            THEN content_compare(f, cfg.hash_algo, fc.left_path, fc.right_path, <<>>)
            ELSE fc]

\* the enrichment loop of _run_content_pipeline
content_enrich(f, cfg, structure_comparisons) ==
    [i \in 1..Len(structure_comparisons) |->
        LET fc == structure_comparisons[i]
        IN  IF fc.left_path # None /\ fc.right_path # None
            THEN content_compare(f, cfg.hash_algo, fc.left_path, fc.right_path,
                                 fc.relative_path)
            ELSE fc]

\* the enrichment loop of _run_text_pipeline
text_enrich(f, cfg, structure_comparisons) ==
    [i \in 1..Len(structure_comparisons) |->
        LET fc == structure_comparisons[i]
        IN  IF fc.left_path # None /\ fc.right_path # None
            THEN text_compare(f, fc.left_path, fc.right_path, fc.relative_path,
                              cfg.context_lines)
            ELSE fc]

DiffResult(left_root, right_root, d, comps, stats) ==
    [left_root |-> left_root, right_root |-> right_root, depth |-> d,
     comparisons |-> comps, stats |-> stats]

-----------------------------------------------------------------------------
(* The inputs the specifications draw from.                                *)

\* the most files a git tree holds
MaxTreeFiles == 2

MaxLines == 3
MaxBytes == 2

\* all sequences over S of length at most n
SeqsUpTo(S, n) == UNION {[1..k -> S] : k \in 0..n}

RECURSIVE Flatten(_)
Flatten(ss) == IF ss = <<>> THEN <<>> ELSE ss[1] \o Flatten(Tail(ss))

\* the permutations of a finite set, as sequences
Perms(S) ==
    {p \in [1..Cardinality(S) -> S] : \A x \in S : \E i \in 1..Cardinality(S) : p[i] = x}

LineA == <<97, LF>>
LineB == <<98, LF>>

\* file contents for the text comparator: up to MaxLines lines "a\n" / "b\n",
\* and every byte string of up to MaxBytes bytes over NUL, "\n", "a" and two
\* bytes that are invalid in UTF-8
ByteAlphabet == {NUL, LF, 97, 254, 255}

TextContents ==
    {Flatten(ls) : ls \in SeqsUpTo({LineA, LineB}, MaxLines)}
        \cup SeqsUpTo(ByteAlphabet, MaxBytes)

\* a file whose only null byte is the first byte beyond the binary sample
BeyondSample ==
    [i \in 1..(_BINARY_SAMPLE_BYTES + 1) |-> IF i <= _BINARY_SAMPLE_BYTES THEN 97 ELSE NUL]

\* the ancestors of the files of a tree are its directories
DirsOf(files) ==
    UNION {ToSet(_ancestor_dirs(path)) : path \in DOMAIN files} \ {<<>>}

MakeTree(files) == [dirs |-> DirsOf(files), files |-> files]

\* every tree over the candidate paths DOMAIN allowed, each present path
\* holding one of the contents allowed for it
TreesOver(allowed) ==
    {MakeTree(files) :
        files \in UNION {{g \in [present -> UNION {allowed[path] : path \in present}] :
                            \A path \in present : g[path] \in allowed[path]} :
                         present \in SUBSET DOMAIN allowed}}

PathA == <<97>>
PathDotE == <<DOT, 101>>
PathDA == <<100, SLASH, 97>>
PathDB == <<100, SLASH, 98>>
PathDDotE == <<100, SLASH, DOT, 101>>
PathHA == <<DOT, 104, SLASH, 97>>
PathDGitignore == <<100, SLASH>> \o GITIGNORE_FILENAME

\* ignore-rule file contents: "!.e\n", "a\n", "d/\n", "b\n"
IgnoreNegDotE == <<BANG, DOT, 101, LF>>
IgnoreA == LineA
IgnoreDirD == <<100, SLASH, LF>>
IgnoreB == LineB

FilterConfig(respect_gitignore, include_hidden, include_patterns, exclude_patterns) ==
    [respect_gitignore |-> respect_gitignore, include_hidden |-> include_hidden,
     include_patterns |-> include_patterns, exclude_patterns |-> exclude_patterns]

\* Comparator.compare: trees of a, d/b, .e and a root ignore-rule file
PipeAllowed ==
    [path \in {PathA, PathDB, PathDotE, GITIGNORE_FILENAME} |->
        IF path = GITIGNORE_FILENAME THEN {IgnoreB}
        ELSE IF path = PathDotE THEN {LineA}
        ELSE {LineA, LineB}]

PipeTrees == TreesOver(PipeAllowed)

PipeFileContents == {<<>>, LineA, LineB, LineA \o LineB, <<NUL>>, <<255>>}

PipeNodes ==
    {MissingNode} \cup {FileNode(b) : b \in PipeFileContents}
        \cup {DirNode(t) : t \in PipeTrees}

\* a path compared with itself is also drawn from every text content
SelfNodes == PipeNodes \cup {FileNode(b) : b \in TextContents}

\* the context_lines values: none, one, and the default
ContextLines == {0, 1, DEFAULT_CONTEXT_LINES}

PipeFilterConfigs ==
    {FilterConfig(TRUE, FALSE, <<>>, <<>>),
     FilterConfig(FALSE, TRUE, <<>>, <<>>),
     FilterConfig(TRUE, FALSE, <<<<STAR>>>>, <<PathA>>)}

Depths == {"structure", "content", "text"}

\* FileFilter.scan: trees of a, .e, d/a, d/.e, .h/a and ignore-rule files in
\* the root and in d
ScanAllowed ==
    [path \in {PathA, PathDotE, PathDA, PathDDotE, PathHA, GITIGNORE_FILENAME,
               PathDGitignore} |->
        IF path = GITIGNORE_FILENAME THEN {IgnoreNegDotE, IgnoreA, IgnoreDirD}
        ELSE IF path = PathDGitignore THEN {IgnoreA, IgnoreNegDotE}
        ELSE {<<>>}]

ScanTrees == TreesOver(ScanAllowed)

\* include patterns: none, "*a", (".e", "d/*"); exclude patterns: none, "a", "*e"
ScanIncludes == {<<>>, <<<<STAR, 97>>>>, <<PathDotE, <<100, SLASH, STAR>>>>}

ScanExcludes == {<<>>, <<PathA>>, <<<<STAR, 101>>>>}

ScanFilterConfigs ==
    {FilterConfig(g, h, i, e) :
        g \in BOOLEAN, h \in BOOLEAN, i \in ScanIncludes, e \in ScanExcludes}

PathDX == <<100, 120>>
PathEA == <<101, SLASH, 97>>

\* FileFilter.scan under ignore rules: trees of a, dx, d/a, e/a, .h/a with the
\* root rules "a\n", "d/\n", "d/\n!a\n" or "a\n!a\n" and the rules "a\n",
\* "!a\n" or "b\n" in d
IgnoreAllowed ==
    [path \in {PathA, PathDX, PathDA, PathEA, PathHA, GITIGNORE_FILENAME,
               PathDGitignore} |->
        IF path = GITIGNORE_FILENAME
        THEN {IgnoreA, IgnoreDirD, IgnoreDirD \o <<BANG>> \o IgnoreA,
              IgnoreA \o <<BANG>> \o IgnoreA}
        ELSE IF path = PathDGitignore THEN {IgnoreA, <<BANG>> \o IgnoreA, IgnoreB}
        ELSE {<<>>}]

\* a directory of .gitignore ("*.pyc\n"), keep.py and ignore.pyc
PycTree ==
    MakeTree((GITIGNORE_FILENAME :> <<STAR, DOT, 112, 121, 99, LF>>)
             @@ (<<107, 101, 101, 112, DOT, 112, 121>> :> <<>>)
             @@ (<<105, 103, 110, 111, 114, 101, DOT, 112, 121, 99>> :> <<>>))

P == <<"p", <<>>>>
Q == <<"q", <<>>>>

-----------------------------------------------------------------------------
(* Spec: Comparator(depth, filter_config, ...).compare(left, right).       *)

Init ==
    /\ left = P
    /\ \/ right = Q /\ fs \in [{"p", "q"} -> PipeNodes]
       \/ right = P /\ fs \in {[p |-> n, q |-> MissingNode] : n \in SelfNodes}
    /\ config \in {[depth |-> d, filter_config |-> c,
                    context_lines |-> DEFAULT_CONTEXT_LINES, hash_algo |-> "sha256"] :
                      d \in Depths \cup {NoValue}, c \in PipeFilterConfigs}
    /\ pc = "start"
    /\ depth = NoValue
    /\ comparisons = <<>>
    /\ result = None
    /\ error = NoValue
    /\ data = <<>>
    /\ walk = WalkStart
    /\ resolver = NewResolver
    /\ git = GitStart

\* compare, lines 64-67: resolve both paths and validate that they exist
ValidatePathsExist ==
    /\ pc = "start"
    /\ error' = _validate_paths_exist(fs, left, right)
    /\ pc' = IF error' = NoValue THEN "validated" ELSE "raised"
    /\ UNCHANGED <<fs, left, right, config, depth, comparisons, result, data, walk, resolver, git>>

\* compare, line 68
ResolveDepth ==
    /\ pc = "validated"
    /\ LET r == _resolve_depth(fs, config, left, right)
       IN  /\ depth' = r.depth
           /\ error' = r.error
           /\ pc' = IF r.error = NoValue THEN "resolved" ELSE "raised"
    /\ UNCHANGED <<fs, left, right, config, comparisons, result, data, walk, resolver, git>>

\* _run_pipeline, depth structure
RunStructure ==
    /\ pc = "resolved"
    /\ depth = "structure"
    /\ error' = structure_error(fs, left, right)
    /\ IF error' = NoValue
       THEN /\ comparisons' = structure_compare(fs, config.filter_config, left, right)
            /\ pc' = "ran"
       ELSE /\ comparisons' = comparisons
            /\ pc' = "raised"
    /\ UNCHANGED <<fs, left, right, config, depth, result, data, walk, resolver, git>>

\* _run_content_pipeline
RunContent ==
    /\ pc = "resolved"
    /\ depth = "content"
    /\ IF is_file(fs, left) /\ is_file(fs, right)
       THEN /\ error' = content_compare_error(fs, left, right)
            /\ comparisons' = <<content_compare(fs, config.hash_algo, left, right, <<>>)>>
            /\ pc' = "ran"
       ELSE /\ error' = structure_error(fs, left, right)
            /\ IF error' = NoValue
               THEN /\ comparisons' =
                         content_enrich(fs, config,
                             structure_compare(fs, config.filter_config, left, right))
                    /\ pc' = "ran"
               ELSE /\ comparisons' = comparisons
                    /\ pc' = "raised"
    /\ UNCHANGED <<fs, left, right, config, depth, result, data, walk, resolver, git>>

\* _run_text_pipeline
RunText ==
    /\ pc = "resolved"
    /\ depth = "text"
    /\ IF is_file(fs, left) /\ is_file(fs, right)
       THEN /\ error' = NoValue
            /\ comparisons' =
                 <<text_compare(fs, left, right, <<>>, config.context_lines)>>
            /\ pc' = "ran"
       ELSE /\ error' = structure_error(fs, left, right)
            /\ IF error' = NoValue
               THEN /\ comparisons' =
                         text_enrich(fs, config,
                             structure_compare(fs, config.filter_config, left, right))
                    /\ pc' = "ran"
               ELSE /\ comparisons' = comparisons
                    /\ pc' = "raised"
    /\ UNCHANGED <<fs, left, right, config, depth, result, data, walk, resolver, git>>

\* compare, lines 70-78: the stats and the DiffResult
ReturnResult ==
    /\ pc = "ran"
    /\ result' = <<DiffResult(left, right, depth, comparisons,
                              from_comparisons(comparisons))>>
    /\ pc' = "done"
    /\ UNCHANGED <<fs, left, right, config, depth, comparisons, error, data, walk, resolver, git>>

Next ==
    \/ ValidatePathsExist
    \/ ResolveDepth
    \/ RunStructure
    \/ RunContent
    \/ RunText
    \/ ReturnResult

Spec == Init /\ [][Next]_vars

-----------------------------------------------------------------------------
(* SpecScan: FileFilter(config).scan(root), one os.walk iteration per step. *)
(* os.walk lists the files of a directory in the order the filesystem      *)
(* gives, which is any order.                                              *)

ConfigOf(d, filter_config, context_lines) ==
    [depth |-> d, filter_config |-> filter_config,
     context_lines |-> context_lines, hash_algo |-> "sha256"]

InitScan ==
    /\ left = P
    /\ right = P
    /\ fs \in {[p |-> n, q |-> MissingNode] :
                 n \in {MissingNode, FileNode(LineA)} \cup {DirNode(t) : t \in ScanTrees}}
    /\ config \in {ConfigOf(NoValue, c, DEFAULT_CONTEXT_LINES) : c \in ScanFilterConfigs}
    /\ pc = "scan"
    /\ depth = NoValue
    /\ comparisons = <<>>
    /\ result = None
    /\ error = NoValue
    /\ data = <<>>
    /\ walk = WalkStart
    /\ resolver = NewResolver
    /\ git = GitStart

\* scan, lines 72-77
ScanStart ==
    /\ pc = "scan"
    /\ IF ~is_dir(fs, left)
       THEN error' = "NotADirectoryError" /\ pc' = "raised"
       ELSE error' = error /\ pc' = "walking"
    /\ walk' = WalkStart
    /\ UNCHANGED <<fs, left, right, config, depth, comparisons, result, data, resolver, git>>

\* scan, lines 79-134: the loop body for the next directory of the walk
WalkDir ==
    /\ pc = "walking"
    /\ walk.stack # <<>>
    /\ \E filenames \in Perms(FileNames(fs[left[1]].tree, Head(walk.stack))) :
          walk' = walk_iteration(fs[left[1]].tree, config.filter_config, walk, filenames)
    /\ UNCHANGED <<fs, left, right, config, pc, depth, comparisons, result, error, data, resolver, git>>

\* scan, lines 136-137
ScanReturn ==
    /\ pc = "walking"
    /\ walk.stack = <<>>
    /\ result' = <<SortList(walk.result)>>
    /\ pc' = "returned"
    /\ UNCHANGED <<fs, left, right, config, depth, comparisons, error, data, walk, resolver, git>>

NextScan ==
    \/ ScanStart
    \/ WalkDir
    \/ ScanReturn

SpecScan == InitScan /\ [][NextScan]_vars

-----------------------------------------------------------------------------
(* SpecIgnore: FileFilter(config).scan(root) on trees that hold ignore-rule *)
(* files in the root and in a subdirectory, walked as in SpecScan.          *)

InitIgnore ==
    /\ left = P
    /\ right = P
    /\ fs \in {[p |-> n, q |-> MissingNode] :
                 n \in {MissingNode, DirNode(PycTree)}
                          \cup {DirNode(t) : t \in TreesOver(IgnoreAllowed)}}
    /\ config \in {ConfigOf(NoValue, FilterConfig(g, h, i, <<>>), DEFAULT_CONTEXT_LINES) :
                     g \in BOOLEAN, h \in BOOLEAN, i \in {<<>>, <<<<STAR, 97>>>>}}
    /\ pc = "scan"
    /\ depth = NoValue
    /\ comparisons = <<>>
    /\ result = None
    /\ error = NoValue
    /\ data = <<>>
    /\ walk = WalkStart
    /\ resolver = NewResolver
    /\ git = GitStart

SpecIgnore == InitIgnore /\ [][NextScan]_vars

-----------------------------------------------------------------------------
(* SpecGit: the with block of main, `with GitResolver(cwd) as resolver`,   *)
(* resolve_pair(left, right) and the comparison, a step per git call.  Any *)
(* git call may fail with GitError and the comparison may raise; left and  *)
(* right are the two command-line arguments "git:m", "git" or "d".         *)

InitGit ==
    /\ left \in {_GIT_PREFIX \o <<109>>, <<103, 105, 116>>, <<100>>}
    /\ right \in {_GIT_PREFIX \o <<109>>, <<103, 105, 116>>, <<100>>}
    /\ fs = [p |-> MissingNode, q |-> MissingNode]
    /\ config = ConfigOf(NoValue, FilterConfig(TRUE, FALSE, <<>>, <<>>), DEFAULT_CONTEXT_LINES)
    /\ pc = "with"
    /\ depth = NoValue
    /\ comparisons = <<>>
    /\ result = None
    /\ error = NoValue
    /\ data = <<>>
    /\ walk = WalkStart
    /\ resolver = NewResolver
    /\ git = GitStart

\* __enter__
Enter ==
    /\ pc = "with"
    /\ pc' = "resolve"
    /\ UNCHANGED <<fs, left, right, config, depth, comparisons, result, error, data, walk,
                   resolver, git>>

\* the position after one side is resolved: the right side, then the
\* comparison
AfterSide(side) == IF side = "left" THEN "resolve" ELSE "compare"

\* _resolve_single up to _get_repo_root: a plain path is returned as it is;
\* for a git ref the repo root is looked up by a git call unless cached
ResolveSingle ==
    /\ pc = "resolve"
    /\ LET value == IF git.side = "left" THEN left ELSE right
       IN  IF ~is_git_ref(value)
           THEN /\ pc' = AfterSide(git.side)
                /\ git' = [git EXCEPT !.side = "right"]
                /\ UNCHANGED <<resolver, error>>
           ELSE IF resolver._repo_root # NoValue
           THEN /\ pc' = "validate"
                /\ UNCHANGED <<resolver, git, error>>
           ELSE /\ git' = [git EXCEPT !.calls = @ + 1]
                /\ \/ /\ resolver' = [resolver EXCEPT !._repo_root = "repo"]
                      /\ pc' = "validate"
                      /\ error' = error
                   \/ /\ error' = "GitError"
                      /\ pc' = "exit"
                      /\ resolver' = resolver
    /\ UNCHANGED <<fs, left, right, config, depth, comparisons, result, data, walk>>

\* validate_ref
ValidateRef ==
    /\ pc = "validate"
    /\ git' = [git EXCEPT !.calls = @ + 1]
    /\ \/ pc' = "extract" /\ error' = error
       \/ pc' = "exit" /\ error' = "GitError"
    /\ UNCHANGED <<fs, left, right, config, depth, comparisons, result, data, walk, resolver>>

\* _extract_to_tmpdir, lines 128-134: the directory is created and appended
\* to _tmpdirs, then the files of the tree are listed
ExtractToTmpdir ==
    /\ pc = "extract"
    /\ resolver' = [resolver EXCEPT !._tmpdirs = Append(@, git.created + 1)]
    /\ \/ /\ \E files \in 0..MaxTreeFiles :
                git' = [git EXCEPT !.exists = @ \cup {git.created + 1},
                                   !.created = @ + 1, !.calls = @ + 1,
                                   !.pending = files]
          /\ pc' = "files"
          /\ error' = error
       \/ /\ git' = [git EXCEPT !.exists = @ \cup {git.created + 1},
                                !.created = @ + 1, !.calls = @ + 1]
          /\ pc' = "exit"
          /\ error' = "GitError"
    /\ UNCHANGED <<fs, left, right, config, depth, comparisons, result, data, walk>>

\* _extract_to_tmpdir, lines 136-140: one file of the tree
ExtractFile ==
    /\ pc = "files"
    /\ git.pending > 0
    /\ \/ /\ git' = [git EXCEPT !.calls = @ + 1, !.pending = @ - 1]
          /\ pc' = pc
          /\ error' = error
       \/ /\ git' = [git EXCEPT !.calls = @ + 1]
          /\ pc' = "exit"
          /\ error' = "GitError"
    /\ UNCHANGED <<fs, left, right, config, depth, comparisons, result, data, walk, resolver>>

\* _extract_to_tmpdir, line 142
ReturnSubdir ==
    /\ pc = "files"
    /\ git.pending = 0
    /\ pc' = AfterSide(git.side)
    /\ git' = [git EXCEPT !.side = "right"]
    /\ UNCHANGED <<fs, left, right, config, depth, comparisons, result, error, data, walk,
                   resolver>>

\* main, lines 183-198: the comparison and the rendering, which return or
\* raise
CompareResolved ==
    /\ pc = "compare"
    /\ \/ error' = error
       \/ error' \in {"FileNotFoundError", "NotADirectoryError", "ValueError"}
    /\ pc' = "exit"
    /\ UNCHANGED <<fs, left, right, config, depth, comparisons, result, data, walk,
                   resolver, git>>

\* __exit__
Exit ==
    /\ pc = "exit"
    /\ git' = [git EXCEPT !.exists = cleanup(resolver._tmpdirs, @)]
    /\ resolver' = [resolver EXCEPT !._tmpdirs = <<>>]
    /\ pc' = "exited"
    /\ UNCHANGED <<fs, left, right, config, depth, comparisons, result, error, data, walk>>

NextGit ==
    \/ Enter
    \/ ResolveSingle
    \/ ValidateRef
    \/ ExtractToTmpdir
    \/ ExtractFile
    \/ ReturnSubdir
    \/ CompareResolved
    \/ Exit

SpecGit == InitGit /\ [][NextGit]_vars

-----------------------------------------------------------------------------
(* SpecText: TextComparator(context_lines).compare(left, right) on two     *)
(* regular files.                                                          *)

InitText ==
    /\ left = P
    /\ right = Q
    /\ fs \in [{"p", "q"} -> {FileNode(b) : b \in TextContents}]
                 \cup {[p |-> FileNode(pair[1]), q |-> FileNode(pair[2])] :
                          pair \in {<<BeyondSample, BeyondSample>>, <<BeyondSample, LineA>>,
                                    <<LineA, BeyondSample>>, <<BeyondSample, <<NUL>>>>}}
    /\ config \in {ConfigOf("text", FilterConfig(TRUE, FALSE, <<>>, <<>>), n) :
                     n \in ContextLines}
    /\ pc = "text"
    /\ depth = "text"
    /\ comparisons = <<>>
    /\ result = None
    /\ error = NoValue
    /\ data = <<>>
    /\ walk = WalkStart
    /\ resolver = NewResolver
    /\ git = GitStart

\* compare, lines 71-75
TextRead ==
    /\ pc = "text"
    /\ data' = <<read_bytes(fs, left), read_bytes(fs, right)>>
    /\ pc' = "read"
    /\ UNCHANGED <<fs, left, right, config, depth, comparisons, result, error, walk, resolver, git>>

\* compare, lines 77-84
CompareBinary ==
    /\ pc = "read"
    /\ _is_binary(data[1]) \/ _is_binary(data[2])
    /\ comparisons' = <<_compare_binary(data[1], data[2], PathName(left), left, right)>>
    /\ pc' = "compared"
    /\ UNCHANGED <<fs, left, right, config, depth, result, error, data, walk, resolver, git>>

\* compare, lines 86-92
CompareText ==
    /\ pc = "read"
    /\ ~(_is_binary(data[1]) \/ _is_binary(data[2]))
    /\ comparisons' = <<_compare_text(data[1], data[2], PathName(left), left, right,
                                      config.context_lines)>>
    /\ pc' = "compared"
    /\ UNCHANGED <<fs, left, right, config, depth, result, error, data, walk, resolver, git>>

NextText ==
    \/ TextRead
    \/ CompareBinary
    \/ CompareText

SpecText == InitText /\ [][NextText]_vars

-----------------------------------------------------------------------------
(* Properties of Comparator.compare (Spec).                                *)

\* the comparisons of the DiffResult compare has returned
Returned == pc = "done"

ResultComparisons == result[1].comparisons

AllResult(ok(_)) == \A i \in 1..Len(ResultComparisons) : ok(ResultComparisons[i])

SomeResult(ok(_)) == \E i \in 1..Len(ResultComparisons) : ok(ResultComparisons[i])

\* C1: idempotence.  Comparing an existing directory with itself, under any
\* filter config and at any depth, or a regular file with itself at content
\* or text depth, returns a DiffResult whose entries all have status
\* identical and whose stats have modified = added = removed = 0; such a
\* comparison raises only for a path that does not exist or for a file
\* compared at structure depth.
C1_Idempotence ==
    left = right =>
        /\ Returned =>
              /\ AllResult(LAMBDA c : c.status = "identical")
              /\ result[1].stats.modified = 0
              /\ result[1].stats.added = 0
              /\ result[1].stats.removed = 0
              /\ result[1].stats.identical = result[1].stats.total_files
        /\ pc = "raised" =>
              \/ ~exists(fs, left)
              \/ is_file(fs, left) /\ depth = "structure"

\* a directory holding at least two visible files compared with itself at
\* text depth
C1_Witness ==
    /\ Returned
    /\ left = right
    /\ is_dir(fs, left)
    /\ depth = "text"
    /\ Len(ResultComparisons) >= 2

\* comps lists every path of L \cup R once and nothing else, each with the
\* status its membership in L and R gives
Partitioned(comps, L, R) ==
    /\ \A path \in L \cup R :
          Cardinality({i \in 1..Len(comps) : comps[i].relative_path = path}) = 1
    /\ \A i \in 1..Len(comps) :
          /\ comps[i].relative_path \in L \cup R
          /\ comps[i].status = "identical" <=> comps[i].relative_path \in L \cap R
          /\ comps[i].status = "removed" <=> comps[i].relative_path \in L \ R
          /\ comps[i].status = "added" <=> comps[i].relative_path \in R \ L

PartitionedBy(comps, scans) == Partitioned(comps, scans[left[1]], scans[right[1]])

\* C2: set-partition completeness.  The result of StructureComparator.compare
\* holds every relative path of the union of the two scans exactly once and
\* no other path, with status identical iff the path is in both scans,
\* removed iff only in the left scan, added iff only in the right scan.
C2_SetPartition ==
    (pc \in {"ran", "done"} /\ depth = "structure") =>
        PartitionedBy(comparisons,
                      [x \in {left[1], right[1]} |->
                          ToSet(scan(fs[x].tree, config.filter_config))])

\* a structure comparison with an identical, a removed and an added entry
C2_Witness ==
    /\ pc = "ran"
    /\ depth = "structure"
    /\ \E i, j, k \in 1..Len(comparisons) :
          /\ comparisons[i].status = "identical"
          /\ comparisons[j].status = "removed"
          /\ comparisons[k].status = "added"

\* C3: depth auto-detection.  With no explicit depth and both paths
\* existing, the depth resolves to structure for two directories and to
\* text for two regular files; for a file and a directory, on either side,
\* the run raises the ValueError 'Cannot compare a file with a directory'
\* and no DiffResult is produced.
C3_AutoDetection ==
    (/\ config.depth = NoValue
     /\ pc \notin {"start", "validated"}
     /\ exists(fs, left)
     /\ exists(fs, right)) =>
        IF is_dir(fs, left) /\ is_dir(fs, right)
        THEN depth = "structure" /\ pc # "raised"
        ELSE IF is_file(fs, left) /\ is_file(fs, right)
        THEN depth = "text" /\ pc # "raised"
        ELSE /\ pc = "raised"
             /\ error = "ValueError:Cannot compare a file with a directory"
             /\ depth = NoValue
             /\ result = None

\* a directory on the left and a regular file on the right, no depth given
C3_Witness ==
    /\ config.depth = NoValue
    /\ pc = "raised"
    /\ is_dir(fs, left)
    /\ is_file(fs, right)

PathPresence(c) ==
    /\ ((c.left_path = None) # (c.right_path = None)) <=> c.status \in {"added", "removed"}
    /\ c.status = "added" => c.left_path = None /\ c.right_path # None
    /\ c.status = "removed" => c.right_path = None /\ c.left_path # None
    /\ (c.left_path # None /\ c.right_path # None) <=> c.status \in {"identical", "modified"}

\* C8: path presence.  In every DiffResult, at every depth, an entry has
\* exactly one of left_path and right_path None iff its status is added or
\* removed (left_path for added, right_path for removed), and both set iff
\* its status is identical or modified.
C8_PathPresence == Returned => AllResult(PathPresence)

\* a content-depth result with an added, a removed and a modified entry
C8_Witness ==
    /\ Returned
    /\ depth = "content"
    /\ SomeResult(LAMBDA c : c.status = "added")
    /\ SomeResult(LAMBDA c : c.status = "removed")
    /\ SomeResult(LAMBDA c : c.status = "modified")

\* C9 as stated: in every DiffResult, similarity is 1.0 iff the status is
\* identical.
C9_SimilarityOneIffIdentical ==
    Returned => AllResult(LAMBDA c : IsOne(c.similarity) <=> c.status = "identical")

\* C9, amended: in every DiffResult produced at content or text depth,
\* similarity is 1.0 iff the status is identical; at structure depth
\* similarity is None for every entry, the identical ones included.
C9_SimilarityByDepth ==
    Returned =>
        IF depth = "structure"
        THEN AllResult(LAMBDA c : c.similarity = None)
        ELSE AllResult(LAMBDA c : IsOne(c.similarity) <=> c.status = "identical")

\* a structure-depth result with an identical entry
C9_Witness ==
    /\ Returned
    /\ depth = "structure"
    /\ SomeResult(LAMBDA c : c.status = "identical")

\* C10 as stated: in every DiffResult produced at content depth, added and
\* removed entries included, the two content hashes are equal iff the status
\* is identical.
C10_HashesEqualIffIdentical ==
    (Returned /\ depth = "content") =>
        AllResult(LAMBDA c :
            (c.content_hash_left = c.content_hash_right) <=> c.status = "identical")

\* C10, amended: in every DiffResult produced at content depth, an entry
\* with both paths present has both hashes set, equal iff its status is
\* identical; an added or removed entry has both hashes None.
C10_HashesByPresence ==
    (Returned /\ depth = "content") =>
        AllResult(LAMBDA c :
            IF c.left_path # None /\ c.right_path # None
            THEN /\ c.content_hash_left # None
                 /\ c.content_hash_right # None
                 /\ (c.content_hash_left = c.content_hash_right) <=> c.status = "identical"
            ELSE /\ c.status \in {"added", "removed"}
                 /\ c.content_hash_left = None
                 /\ c.content_hash_right = None)

\* a content-depth result of two directories with an added entry, a modified
\* one and an identical one
C10_Witness ==
    /\ Returned
    /\ depth = "content"
    /\ is_dir(fs, left)
    /\ SomeResult(LAMBDA c : c.status = "added")
    /\ SomeResult(LAMBDA c : c.status = "modified")
    /\ SomeResult(LAMBDA c : c.status = "identical")

-----------------------------------------------------------------------------
(* Properties of FileFilter.scan (SpecScan).                               *)

HiddenAmong(parts) == \E k \in 1..Len(parts) : parts[k] # <<>> /\ parts[k][1] = DOT

\* some segment of the path has a name starting with '.'
HasHiddenSegment(path) == HiddenAmong(Split(path, SLASH))

MatchesAny(path, patterns) == \E k \in 1..Len(patterns) : fnmatch(path, patterns[k])

ScanResult == result[1]

\* C4: hidden exclusion wins.  With include_hidden false, no path a scan
\* returns has a segment whose name starts with '.', whatever the tree, the
\* ignore-rule files (a negation of the hidden file included) and the
\* include patterns.
C4_HiddenExclusion ==
    (pc = "returned" /\ ~config.filter_config.include_hidden) =>
        \A i \in 1..Len(ScanResult) : ~HasHiddenSegment(ScanResult[i])

\* a scan that returns something, of a tree holding .e, d/.e and .h/a, whose
\* root ignore-rule file says !.e, with include patterns .e and d/*
C4_Witness ==
    /\ pc = "returned"
    /\ ~config.filter_config.include_hidden
    /\ config.filter_config.respect_gitignore
    /\ config.filter_config.include_patterns = <<PathDotE, <<100, SLASH, STAR>>>>
    /\ {PathDotE, PathDDotE, PathHA, GITIGNORE_FILENAME} \subseteq DOMAIN fs.p.tree.files
    /\ fs.p.tree.files[GITIGNORE_FILENAME] = IgnoreNegDotE
    /\ ScanResult # <<>>

\* the files the hidden and the exclude layer let through
PassingHiddenAndExclude(tree, cfg) ==
    {path \in DOMAIN tree.files :
        /\ cfg.include_hidden \/ ~HasHiddenSegment(path)
        /\ ~MatchesAny(path, cfg.exclude_patterns)}

\* C5: exclude wins over include.  No path of a scan result matches an
\* exclude pattern, even one that also matches an include pattern; with a
\* non-empty include list every path of the result matches an include
\* pattern; an empty include list restricts nothing: with no ignore rules
\* in force the result is then every file the hidden and the exclude layer
\* let through.
C5_ExcludeWins ==
    pc = "returned" =>
        /\ \A i \in 1..Len(ScanResult) :
              ~MatchesAny(ScanResult[i], config.filter_config.exclude_patterns)
        /\ config.filter_config.include_patterns # <<>> =>
              \A i \in 1..Len(ScanResult) :
                 MatchesAny(ScanResult[i], config.filter_config.include_patterns)
        /\ (/\ config.filter_config.include_patterns = <<>>
            /\ ~config.filter_config.respect_gitignore) =>
              ToSet(ScanResult) = PassingHiddenAndExclude(fs.p.tree, config.filter_config)

\* a scan with include *a and exclude a of a tree holding a and d/a: a
\* matches both lists, d/a only the include list
C5_Witness ==
    /\ pc = "returned"
    /\ config.filter_config.include_patterns = <<<<STAR, 97>>>>
    /\ config.filter_config.exclude_patterns = <<PathA>>
    /\ {PathA, PathDA} \subseteq DOMAIN fs.p.tree.files
    /\ PathDA \in ToSet(ScanResult)

-----------------------------------------------------------------------------
(* Properties of TextComparator.compare (SpecText).                        *)

\* a null byte within the first 8192 bytes of either file
DetectedBinary ==
    \E side \in 1..2 :
       \E i \in 1..Min(Len(data[side]), _BINARY_SAMPLE_BYTES) : data[side][i] = NUL

SimilarityInBounds(c, binary) ==
    /\ \/ c.similarity = None
       \/ /\ c.similarity[2] > 0
          /\ 0 <= c.similarity[1]
          /\ c.similarity[1] <= c.similarity[2]
    /\ IsOne(c.similarity) <=> c.status = "identical"
    /\ c.similarity = None <=> (c.status = "modified" /\ binary)

\* C6: similarity bounds.  The similarity of every result of
\* TextComparator.compare is None or a value in [0,1]; it is 1.0 iff the
\* status is identical; it is None iff the status is modified and the pair
\* was detected as binary.
C6_SimilarityBounds ==
    pc = "compared" => SimilarityInBounds(comparisons[1], DetectedBinary)

\* two texts that share some lines but not all
C6_Witness ==
    /\ pc = "compared"
    /\ comparisons[1].status = "modified"
    /\ comparisons[1].similarity # None
    /\ 0 < comparisons[1].similarity[1]
    /\ comparisons[1].similarity[1] < comparisons[1].similarity[2]

\* the number of entries an opcode contributes
OpLen(c) ==
    IF c.tag \in {"equal", "delete"} THEN c.i2 - c.i1
    ELSE IF c.tag = "insert" THEN c.j2 - c.j1
    ELSE (c.i2 - c.i1) + (c.j2 - c.j1)

\* the number of entries the opcodes before the m-th contribute
RECURSIVE OffsetOf(_, _)
OffsetOf(group, m) ==
    IF m = 1 THEN 0 ELSE OffsetOf(group, m - 1) + OpLen(group[m - 1])

\* from offset off on: a delete entry per left line of the span, in order,
\* then an insert entry per right line of the span, in order
ReplaceOrdered(c, changes, off, left_lines, right_lines) ==
    /\ \A k \in 1..(c.i2 - c.i1) :
          changes[off + k] = [change_type |-> "delete", content |-> left_lines[c.i1 + k],
                              line_left |-> <<c.i1 + k>>, line_right |-> None]
    /\ \A k \in 1..(c.j2 - c.j1) :
          changes[off + (c.i2 - c.i1) + k] =
              [change_type |-> "insert", content |-> right_lines[c.j1 + k],
               line_left |-> None, line_right |-> <<c.j1 + k>>]

HunksOrdered(hunks, groups, left_lines, right_lines) ==
    /\ Len(hunks) = Len(groups)
    /\ \A g \in 1..Len(groups) :
          /\ Len(hunks[g].changes) = OffsetOf(groups[g], Len(groups[g]) + 1)
          /\ \A m \in 1..Len(groups[g]) :
                groups[g][m].tag = "replace" =>
                    ReplaceOrdered(groups[g][m], hunks[g].changes,
                                   OffsetOf(groups[g], m), left_lines, right_lines)
          /\ \A k \in 1..Len(hunks[g].changes) :
                hunks[g].changes[k].change_type \in {"equal", "delete", "insert"}

HunksOrderedFor(c, left_lines, right_lines, n) ==
    IF c.status = "identical" THEN c.hunks = <<>>
    ELSE HunksOrdered(c.hunks, get_grouped_opcodes(left_lines, right_lines, n),
                      left_lines, right_lines)

\* C7: replace ordering.  For every replace opcode of every hunk, the
\* entries emitted for its span are a delete entry for each left line, in
\* order, followed by an insert entry for each right line, in order, never
\* interleaved; and no entry of any hunk has change_type substitute.
C7_ReplaceOrdering ==
    pc = "compared" =>
        IF DetectedBinary THEN comparisons[1].hunks = <<>>
        ELSE HunksOrderedFor(comparisons[1],
                             splitlines_keepends(decode(data[1])),
                             splitlines_keepends(decode(data[2])),
                             config.context_lines)

\* a hunk in which two lines are replaced by two others
C7_Witness ==
    /\ pc = "compared"
    /\ \E g \in 1..Len(comparisons[1].hunks) :
          \E k \in 1..(Len(comparisons[1].hunks[g].changes) - 3) :
             /\ comparisons[1].hunks[g].changes[k].change_type = "delete"
             /\ comparisons[1].hunks[g].changes[k + 1].change_type = "delete"
             /\ comparisons[1].hunks[g].changes[k + 2].change_type = "insert"
             /\ comparisons[1].hunks[g].changes[k + 3].change_type = "insert"

-----------------------------------------------------------------------------
(* Further properties of Comparator.compare (Spec).                        *)

\* strictly ascending relative paths
StrictlySorted(comps) ==
    \A i \in 1..(Len(comps) - 1) :
       LexLess(comps[i].relative_path, comps[i + 1].relative_path)

RelativePaths(comps) == [i \in 1..Len(comps) |-> comps[i].relative_path]

\* the enrichment of two directories was run
EnrichedDirs ==
    /\ pc \in {"ran", "done"}
    /\ depth \in {"content", "text"}
    /\ ~(is_file(fs, left) /\ is_file(fs, right))

\* C11: order and uniqueness.  In every DiffResult, at every depth, the
\* comparisons are in strictly ascending order of relative_path, so no
\* relative_path occurs twice; and the content and text enrichment keep the
\* sequence of relative paths the structure pass produced.
C11_SortedUnique ==
    /\ Returned => StrictlySorted(ResultComparisons)
    /\ EnrichedDirs =>
          RelativePaths(comparisons) =
              RelativePaths(structure_compare(fs, config.filter_config, left, right))

\* a text-depth result of two directories with entries in the root and in
\* a subdirectory, one of them on the right only
C11_Witness ==
    /\ Returned
    /\ depth = "text"
    /\ is_dir(fs, left)
    /\ Len(ResultComparisons) >= 3
    /\ SomeResult(LAMBDA c : c.status = "added")
    /\ SomeResult(LAMBDA c : c.relative_path = PathDB)

\* the entry of a path that only one scan holds, as the structure pass
\* builds it: no hunks, no hashes, no similarity
OneSided(path, in_left) ==
    [relative_path |-> path,
     status |-> IF in_left THEN "removed" ELSE "added",
     left_path |-> IF in_left THEN <<left[1], path>> ELSE None,
     right_path |-> IF in_left THEN None ELSE <<right[1], path>>,
     hunks |-> <<>>, content_hash_left |-> None, content_hash_right |-> None,
     similarity |-> None]

\* what the comparator of the depth returns for the pair at path
ComparedPair(path) ==
    IF depth = "content"
    THEN content_compare(fs, config.hash_algo, <<left[1], path>>, <<right[1], path>>, path)
    ELSE text_compare(fs, <<left[1], path>>, <<right[1], path>>, path,
                      config.context_lines)

FannedOut(comps, L, R) ==
    /\ ToSet(RelativePaths(comps)) = L \cup R
    /\ \A i \in 1..Len(comps) :
          IF comps[i].relative_path \in L \cap R
          THEN comps[i] = ComparedPair(comps[i].relative_path)
          ELSE comps[i] = OneSided(comps[i].relative_path, comps[i].relative_path \in L)

FannedOutBy(comps, scans) == FannedOut(comps, scans[left[1]], scans[right[1]])

\* C12: enrichment fan-out.  At content or text depth with a directory
\* input, every path that both scans hold (the structure entries with both
\* paths set) carries the result of ContentComparator, resp. TextComparator,
\* on that pair under the same relative_path, and every path only one scan
\* holds carries its structure entry unchanged in every field: status, the
\* one path, no hashes, no hunks, similarity None.
C12_EnrichmentFanOut ==
    EnrichedDirs =>
        FannedOutBy(comparisons,
                    [x \in {left[1], right[1]} |->
                        ToSet(scan(fs[x].tree, config.filter_config))])

\* a text-depth enrichment with a modified pair in a subdirectory and a
\* removed entry
C12_Witness ==
    /\ EnrichedDirs
    /\ depth = "text"
    /\ \E i, j \in 1..Len(comparisons) :
          /\ comparisons[i].status = "modified"
          /\ comparisons[i].relative_path = PathDB
          /\ comparisons[i].hunks # <<>>
          /\ comparisons[j].status = "removed"

\* the number of entries with a status
NumberWith(comps, status) ==
    Cardinality({i \in DOMAIN comps : comps[i].status = status})

StatsReduce(stats, comps) ==
    /\ stats.total_files = Len(comps)
    /\ stats.identical = NumberWith(comps, "identical")
    /\ stats.modified = NumberWith(comps, "modified")
    /\ stats.added = NumberWith(comps, "added")
    /\ stats.removed = NumberWith(comps, "removed")
    /\ stats.total_files = stats.identical + stats.modified + stats.added + stats.removed

\* C13: stats are a pure reduction.  In every DiffResult, total_files is the
\* number of comparisons, each of identical, modified, added and removed is
\* the number of comparisons with that status, and total_files is the sum of
\* the four.
C13_StatsReduction == Returned => StatsReduce(result[1].stats, ResultComparisons)

\* a result with at least one entry of each status
C13_Witness ==
    /\ Returned
    /\ result[1].stats.identical >= 1
    /\ result[1].stats.modified >= 1
    /\ result[1].stats.added >= 1
    /\ result[1].stats.removed >= 1

\* compare raised e before resolving a depth and before any pipeline ran
RaisedAtOnce(e) ==
    /\ pc = "raised"
    /\ error = e
    /\ depth = NoValue
    /\ comparisons = <<>>
    /\ result = None

\* C14: existence validation comes first.  compare raises the
\* FileNotFoundError naming the left path if left does not exist, otherwise
\* the one naming the right path if right does not exist, and does so before
\* the depth is resolved and before any scan, hash or read, whatever the
\* depth setting; with both paths existing it raises neither.
C14_ExistenceFirst ==
    pc # "start" =>
        IF ~exists(fs, left)
        THEN RaisedAtOnce("FileNotFoundError:Left path does not exist")
        ELSE IF ~exists(fs, right)
        THEN RaisedAtOnce("FileNotFoundError:Right path does not exist")
        ELSE error \notin {"FileNotFoundError:Left path does not exist",
                           "FileNotFoundError:Right path does not exist"}

\* both paths missing, with an explicit depth
C14_Witness ==
    /\ pc = "raised"
    /\ ~exists(fs, left)
    /\ ~exists(fs, right)
    /\ config.depth = "content"

\* the inputs no comparator of an explicit depth accepts: a file and a
\* directory, or two files at structure depth
NoComparatorAccepts ==
    /\ exists(fs, left)
    /\ exists(fs, right)
    /\ \/ is_dir(fs, left) # is_dir(fs, right)
       \/ config.depth = "structure" /\ is_file(fs, left) /\ is_file(fs, right)

-----------------------------------------------------------------------------
(* Properties of FileFilter.scan under ignore rules (SpecIgnore).          *)

\* the rules of every ignore-rule file of the tree, by directory
SpecsOf(tree) ==
    [d \in {Dirname(f) : f \in {x \in DOMAIN tree.files : Basename(x) = GITIGNORE_FILENAME}} |->
        from_lines(splitlines(decode(tree.files[_join_posix(d, GITIGNORE_FILENAME)])))]

\* the directories above a path, the root left out
DirsAbove(path) == ToSet(_ancestor_dirs(path)) \ {<<>>}

\* a directory the walk does not descend into: hidden with hidden entries
\* left out, or ignored (as a directory, with the trailing slash) by the
\* rules above it
Pruned(dir, cfg, specs) ==
    \/ ~cfg.include_hidden /\ _is_hidden(Basename(dir))
    \/ cfg.respect_gitignore /\ _is_gitignored(dir, TRUE, specs)

NoneBelowPruned(paths, cfg, specs) ==
    \A i \in 1..Len(paths) : \A dir \in DirsAbove(paths[i]) : ~Pruned(dir, cfg, specs)

\* C16: pruning is a guarantee.  No path of a scan result lies below a
\* directory that is hidden (hidden entries left out) or that the ignore
\* rules match as a directory, even a file that passes every layer itself or
\* that a negation re-includes; and the directory-only rule d/ does not
\* exclude the plain file dx.
C16_Pruning ==
    pc = "returned" =>
        /\ NoneBelowPruned(ScanResult, config.filter_config, SpecsOf(fs.p.tree))
        /\ (/\ config.filter_config.respect_gitignore
            /\ config.filter_config.include_patterns = <<>>
            /\ {PathDX, GITIGNORE_FILENAME} \subseteq DOMAIN fs.p.tree.files
            /\ fs.p.tree.files[GITIGNORE_FILENAME] = IgnoreDirD) =>
              PathDX \in ToSet(ScanResult)

\* a scan under the root rules d/ and !a, hidden entries left out, of a tree
\* holding a, dx, d/a and .h/a: d/a is not ignored as a file, d is pruned,
\* and the result is a and dx
C16_Witness ==
    /\ pc = "returned"
    /\ config.filter_config.respect_gitignore
    /\ ~config.filter_config.include_hidden
    /\ config.filter_config.include_patterns = <<>>
    /\ {PathA, PathDX, PathDA, PathHA, GITIGNORE_FILENAME} \subseteq DOMAIN fs.p.tree.files
    /\ fs.p.tree.files[GITIGNORE_FILENAME] = IgnoreDirD \o <<BANG>> \o IgnoreA
    /\ ~_is_gitignored(PathDA, FALSE, walk.gitignore_specs)
    /\ ScanResult = <<PathA, PathDX>>


\* the rules of the ignore-rule file of a directory
RulesIn(tree, dir) ==
    from_lines(splitlines(decode(tree.files[_join_posix(dir, GITIGNORE_FILENAME)])))

\* a path below dir, relative to dir
RelativeTo(dir, path) == IF dir = <<>> THEN path ELSE SliceFrom(path, Len(dir) + 1)

\* the ignore-rule file of dir, if there is one, evaluated on a path below
\* dir taken relative to dir, marks the path ignored
IgnoredUnder(tree, dir, path, as_dir) ==
    /\ _join_posix(dir, GITIGNORE_FILENAME) \in DOMAIN tree.files
    /\ match_file(RulesIn(tree, dir),
                  RelativeTo(dir, path) \o (IF as_dir THEN <<SLASH>> ELSE <<>>))

\* some ignore-rule file of a directory the file lies in marks the file, or
\* a directory between the two, ignored
ChainExcludes(tree, path) ==
    \E dir \in ToSet(_ancestor_dirs(path)) :
       \/ IgnoredUnder(tree, dir, path, FALSE)
       \/ \E below \in DirsAbove(path) :
             /\ dir \in ToSet(_ancestor_dirs(below))
             /\ IgnoredUnder(tree, dir, below, TRUE)

PassesOtherLayers(cfg, path) ==
    /\ cfg.include_hidden \/ ~HasHiddenSegment(path)
    /\ cfg.include_patterns = <<>> \/ MatchesAny(path, cfg.include_patterns)
    /\ ~MatchesAny(path, cfg.exclude_patterns)

OnlyChainExcludes(tree, cfg, paths) ==
    \A path \in DOMAIN tree.files :
       (PassesOtherLayers(cfg, path) /\ ~(cfg.respect_gitignore /\ ChainExcludes(tree, path)))
          => path \in paths

\* C17: ignore-rule scoping.  The rules of an ignore-rule file in directory
\* D exclude only paths inside D, matched relative to D: a file that passes
\* the other layers and that no ignore-rule file of a directory it lies in
\* marks ignored (itself or a directory on its way) is in the scan result,
\* whatever the ignore-rule files of other directories say.
C17_Scoping ==
    pc = "returned" =>
        OnlyChainExcludes(fs.p.tree, config.filter_config, ToSet(ScanResult))

\* a scan with hidden entries included of a tree holding a, d/a, e/a, .h/a
\* and the rule a in d only: d/a is left out, and a (above d), .h/a and e/a
\* (beside d) are returned
C17_Witness ==
    /\ pc = "returned"
    /\ config.filter_config.respect_gitignore
    /\ config.filter_config.include_hidden
    /\ config.filter_config.include_patterns = <<>>
    /\ {PathA, PathDA, PathEA, PathHA, PathDGitignore} \subseteq DOMAIN fs.p.tree.files
    /\ GITIGNORE_FILENAME \notin DOMAIN fs.p.tree.files
    /\ fs.p.tree.files[PathDGitignore] = IgnoreA
    /\ PathDA \notin ToSet(ScanResult)
    /\ {PathA, PathEA, PathHA} \subseteq ToSet(ScanResult)


\* the directories a file lies in that hold an ignore-rule file
RuleDirs(tree, path) ==
    {dir \in ToSet(_ancestor_dirs(path)) :
        _join_posix(dir, GITIGNORE_FILENAME) \in DOMAIN tree.files}

\* the ignore-rule file of dir evaluated on a file below dir: "True"
\* (ignored), "False" (negated) or "None" (no pattern matches), the last
\* matching pattern deciding
Verdict(tree, dir, path) ==
    match_from(RulesIn(tree, dir), RelativeTo(dir, path), 1, NoValue, 0)

\* the files the ignore layer alone decides: they pass the other layers and
\* lie below no pruned directory
DecidedByIgnore(tree, cfg) ==
    {path \in DOMAIN tree.files :
        /\ PassesOtherLayers(cfg, path)
        /\ \A dir \in DirsAbove(path) : ~Pruned(dir, cfg, SpecsOf(tree))}

NearestDecides(tree, decided, paths) ==
    \A path \in decided :
       \A dir \in RuleDirs(tree, path) :
          (\A other \in RuleDirs(tree, path) : Len(other) <= Len(dir)) =>
             /\ Verdict(tree, dir, path) = "True" => path \notin paths
             /\ Verdict(tree, dir, path) = "False" => path \in paths

AnyDecides(tree, decided, paths) ==
    \A path \in decided :
       path \in paths <=>
          \A dir \in RuleDirs(tree, path) : Verdict(tree, dir, path) # "True"

\* C18 as stated: with ignore rules respected, the nearest ignore-rule file
\* above a path decides: the path is excluded if that file's evaluation
\* marks it ignored and kept if that evaluation negates it.
C18_NearestFileDecides ==
    (pc = "returned" /\ config.filter_config.respect_gitignore) =>
        NearestDecides(fs.p.tree, DecidedByIgnore(fs.p.tree, config.filter_config),
                       ToSet(ScanResult))

\* C18: with ignore rules respected, every ignore-rule file above a path is
\* evaluated on its own, a later pattern overriding an earlier one and `!`
\* negating within that file: the path is excluded if the evaluation of any
\* of these files marks it ignored, and kept if none does; a negation undoes
\* only earlier patterns of its own file.
C18_AnyFileDecides ==
    (pc = "returned" /\ config.filter_config.respect_gitignore) =>
        AnyDecides(fs.p.tree, DecidedByIgnore(fs.p.tree, config.filter_config),
                   ToSet(ScanResult))

\* a scan under the root rules a and !a and the rule a in d, of a tree
\* holding a and d/a: the root file negates both, a is returned, and d/a,
\* which the file in d marks ignored, is not
C18_Witness ==
    /\ pc = "returned"
    /\ config.filter_config.respect_gitignore
    /\ {PathA, PathDA, GITIGNORE_FILENAME, PathDGitignore} \subseteq DOMAIN fs.p.tree.files
    /\ fs.p.tree.files[GITIGNORE_FILENAME] = IgnoreA \o <<BANG>> \o IgnoreA
    /\ fs.p.tree.files[PathDGitignore] = IgnoreA
    /\ Verdict(fs.p.tree, <<>>, PathDA) = "False"
    /\ PathA \in ToSet(ScanResult)
    /\ PathDA \notin ToSet(ScanResult)


\* the files of subdirectories
InSubdirectory(tree) == {path \in DOMAIN tree.files : Dirname(path) # <<>>}

\* the rules above the file's own directory exclude it, whatever the
\* directory's own ignore-rule file says, and so do the directory's own
AccumulatedDown(tree, paths) ==
    \A path \in InSubdirectory(tree) :
       /\ (\E dir \in RuleDirs(tree, path) \ {Dirname(path)} :
              Verdict(tree, dir, path) = "True") => path \notin paths
       /\ (/\ Dirname(path) \in RuleDirs(tree, path)
           /\ Verdict(tree, Dirname(path), path) = "True") => path \notin paths

\* C19: ignore rules accumulate down the tree.  With ignore rules
\* respected, a file of a subdirectory that the ignore-rule file of the root
\* or of another directory above it matches as ignored is not in the scan
\* result, even when the subdirectory has an ignore-rule file of its own
\* that does not match it; nor is a file that the subdirectory's own
\* ignore-rule file matches as ignored.
C19_Accumulation ==
    (pc = "returned" /\ config.filter_config.respect_gitignore) =>
        AccumulatedDown(fs.p.tree, ToSet(ScanResult))

\* a scan with hidden entries included under the root rule a and the rule b
\* in d, of a tree holding d/a: d is walked, its own file does not match
\* d/a, and d/a is left out
C19_Witness ==
    /\ pc = "returned"
    /\ config.filter_config.respect_gitignore
    /\ config.filter_config.include_hidden
    /\ config.filter_config.include_patterns = <<>>
    /\ {PathDA, GITIGNORE_FILENAME, PathDGitignore} \subseteq DOMAIN fs.p.tree.files
    /\ fs.p.tree.files[GITIGNORE_FILENAME] = IgnoreA
    /\ fs.p.tree.files[PathDGitignore] = IgnoreB
    /\ Verdict(fs.p.tree, <<100>>, PathDA) = NoValue
    /\ PathDGitignore \in ToSet(ScanResult)
    /\ PathDA \notin ToSet(ScanResult)


\* the directories holding an ignore-rule file that the walk reaches: the
\* root, and those that are not pruned and lie below no pruned directory
WalkedRuleDirs(tree, cfg, specs) ==
    {dir \in DOMAIN specs :
        \A above \in DirsAbove(_join_posix(dir, GITIGNORE_FILENAME)) :
           ~Pruned(above, cfg, specs)}

\* the rules in force after a walk are those of the ignore-rule files of
\* the walked directories, and none when ignore rules are not respected
RulesRead(tree, cfg, specs, loaded) ==
    /\ DOMAIN loaded = (IF cfg.respect_gitignore
                        THEN WalkedRuleDirs(tree, cfg, specs) ELSE {})
    /\ \A dir \in DOMAIN loaded : loaded[dir] = specs[dir]

\* C20: an ignore-rule file is read and applied whenever ignore rules are
\* respected, whether or not hidden entries are included, and with hidden
\* entries left out it is never in the result itself: after a scan the
\* rules in force are those of the ignore-rule files of the walked
\* directories, a directory without one adding none; the scan of a
\* directory holding .gitignore (*.pyc), keep.py and ignore.pyc with the
\* default config returns exactly keep.py; and the scan of a directory
\* raises no error, with or without ignore-rule files.
C20_IgnoreFileRead ==
    /\ pc = "returned" =>
          /\ RulesRead(fs.p.tree, config.filter_config, SpecsOf(fs.p.tree),
                       walk.gitignore_specs)
          /\ ~config.filter_config.include_hidden =>
                \A i \in 1..Len(ScanResult) : Basename(ScanResult[i]) # GITIGNORE_FILENAME
          /\ (/\ fs.p.tree = PycTree
              /\ config.filter_config = FilterConfig(TRUE, FALSE, <<>>, <<>>)) =>
                ScanResult = <<<<107, 101, 101, 112, DOT, 112, 121>>>>
    /\ pc = "raised" => ~is_dir(fs, left)

\* the scan by the default config of the directory holding .gitignore
\* (*.pyc), keep.py and ignore.pyc, returning keep.py alone with the rules
\* of the root's file in force
C20_Witness ==
    /\ pc = "returned"
    /\ fs.p.tree = PycTree
    /\ config.filter_config = FilterConfig(TRUE, FALSE, <<>>, <<>>)
    /\ DOMAIN walk.gitignore_specs = {<<>>}
    /\ ScanResult = <<<<107, 101, 101, 112, DOT, 112, 121>>>>


-----------------------------------------------------------------------------
(* Further properties of TextComparator.compare (SpecText).                *)

\* the result of a pair compared by bytes alone
ComparedAsBinary(c, left_bytes, right_bytes) ==
    /\ c.hunks = <<>>
    /\ left_bytes = right_bytes => (c.status = "identical" /\ IsOne(c.similarity))
    /\ left_bytes # right_bytes => (c.status = "modified" /\ c.similarity = None)

\* the result of a pair compared line by line
ComparedAsText(c) ==
    /\ c.similarity # None
    /\ c.status = "modified" => c.hunks # <<>>

\* C21: binary detection.  A pair is compared as binary iff a null byte
\* lies within the first 8192 bytes of the left or of the right file: the
\* result then has no hunks and is identical with similarity 1.0 if the two
\* byte sequences are equal, modified with similarity None otherwise.  Any
\* other pair, one whose only null byte lies beyond byte 8192 included, is
\* compared as text and has a similarity.
C21_BinaryDetection ==
    pc = "compared" =>
        IF DetectedBinary
        THEN ComparedAsBinary(comparisons[1], data[1], data[2])
        ELSE ComparedAsText(comparisons[1])

\* a file of 8192 bytes "a" and then a null byte, compared with a different
\* file holding no null byte: modified, with a similarity and a hunk
C21_Witness ==
    /\ pc = "compared"
    /\ data[1] = BeyondSample
    /\ NUL \notin ToSet(data[2])
    /\ data[2] # <<>>
    /\ comparisons[1].status = "modified"
    /\ comparisons[1].similarity # None
    /\ comparisons[1].hunks # <<>>


\* the changed regions of an alignment: the positions of its opcodes that
\* are not equal
ChangedAt(codes) == {m \in 1..Len(codes) : codes[m].tag # "equal"}

\* the hunk holds the first entry of the changed region c
HoldsRegion(h, c) ==
    \E k \in 1..Len(h.changes) :
       IF c.tag = "insert"
       THEN h.changes[k].change_type = "insert" /\ h.changes[k].line_right = <<c.j1 + 1>>
       ELSE h.changes[k].change_type = "delete" /\ h.changes[k].line_left = <<c.i1 + 1>>

HunksHolding(hunks, c) == {g \in 1..Len(hunks) : HoldsRegion(hunks[g], c)}

\* the positions in a hunk of the entries that are not equal
ChangesAt(h) == {k \in 1..Len(h.changes) : h.changes[k].change_type # "equal"}

\* the unchanged lines before the region at m, back to the region before it
\* or to the start of the file, and after it, up to the next region or to
\* the end of the file
UnchangedBefore(codes, m) ==
    codes[m].i1 - (IF \E x \in ChangedAt(codes) : x < m
                   THEN codes[CHOOSE x \in ChangedAt(codes) :
                                 x < m /\ \A y \in ChangedAt(codes) : y < m => y <= x].i2
                   ELSE 0)

UnchangedAfter(codes, m, left_len) ==
    (IF \E x \in ChangedAt(codes) : x > m
     THEN codes[CHOOSE x \in ChangedAt(codes) :
                   x > m /\ \A y \in ChangedAt(codes) : y > m => x <= y].i1
     ELSE left_len) - codes[m].i2

\* the regions of one hunk, and the equal entries it starts and ends with
HunkBounded(h, codes, held, n, left_len) ==
    /\ held # {} /\ ChangesAt(h) # {}
    /\ \A m \in held : \A k \in ChangesAt(h) :
          /\ (\A x \in held : m <= x) /\ (\A y \in ChangesAt(h) : k <= y) =>
                k - 1 = Min(n, UnchangedBefore(codes, m))
          /\ (\A x \in held : x <= m) /\ (\A y \in ChangesAt(h) : y <= k) =>
                Len(h.changes) - k = Min(n, UnchangedAfter(codes, m, left_len))

Grouped(hunks, codes, n, left_len) ==
    /\ hunks # <<>>
    /\ \A m \in ChangedAt(codes) : Cardinality(HunksHolding(hunks, codes[m])) = 1
    /\ \A m \in ChangedAt(codes) : \A m2 \in ChangedAt(codes) :
          (m < m2 /\ \A x \in ChangedAt(codes) : ~(m < x /\ x < m2)) =>
             (HunksHolding(hunks, codes[m]) = HunksHolding(hunks, codes[m2])
                <=> codes[m2].i1 - codes[m].i2 <= 2 * n)
    /\ \A g \in 1..Len(hunks) :
          HunkBounded(hunks[g], codes,
                      {m \in ChangedAt(codes) : HoldsRegion(hunks[g], codes[m])},
                      n, left_len)

GroupedFor(c, left_lines, right_lines, n) ==
    c.status = "modified" =>
        Grouped(c.hunks, get_opcodes(left_lines, right_lines), n, Len(left_lines))

\* C22: hunk grouping.  For a modified text pair with context_lines = n,
\* there is at least one hunk; every changed region of the alignment lies in
\* exactly one hunk; two consecutive changed regions lie in the same hunk iff
\* at most 2*n unchanged lines separate them; and every hunk starts with
\* min(n, u) equal entries, u being the number of unchanged lines before its
\* first changed region (back to the previous region or the start of the
\* file), and ends likewise: none when n = 0.
C22_HunkGrouping ==
    (pc = "compared" /\ ~DetectedBinary) =>
        GroupedFor(comparisons[1],
                   splitlines_keepends(decode(data[1])),
                   splitlines_keepends(decode(data[2])),
                   config.context_lines)

\* with no context, two changed regions one unchanged line apart, in two
\* hunks without equal entries
C22_Witness ==
    /\ pc = "compared"
    /\ config.context_lines = 0
    /\ comparisons[1].status = "modified"
    /\ Len(comparisons[1].hunks) = 2
    /\ comparisons[1].hunks[2].start_left = comparisons[1].hunks[1].start_left
                                              + comparisons[1].hunks[1].count_left + 1


\* a line number that is set, 1-based and within the file
LineWithin(line, lines) ==
    /\ line # None
    /\ 1 <= line[1] /\ line[1] <= Len(lines)

LineNumbersPresent(ch, left_lines, right_lines) ==
    /\ ch.change_type = "delete" =>
          /\ LineWithin(ch.line_left, left_lines) /\ ch.line_right = None
          /\ ch.content = left_lines[ch.line_left[1]]
    /\ ch.change_type = "insert" =>
          /\ LineWithin(ch.line_right, right_lines) /\ ch.line_left = None
          /\ ch.content = right_lines[ch.line_right[1]]
    /\ ch.change_type = "equal" =>
          /\ LineWithin(ch.line_left, left_lines) /\ LineWithin(ch.line_right, right_lines)
          /\ ch.content = left_lines[ch.line_left[1]]
          /\ ch.content = right_lines[ch.line_right[1]]

AllLineNumbersPresent(hunks, left_lines, right_lines) ==
    \A g \in 1..Len(hunks) : \A k \in 1..Len(hunks[g].changes) :
       LineNumbersPresent(hunks[g].changes[k], left_lines, right_lines)

\* the lines of a text, terminators kept, make up the text
LinesOf(text, lines) == Flatten(lines) = text

\* C23: line-number presence.  Every entry of every hunk has line_left set
\* and line_right None if it is a delete, line_right set and line_left None
\* if it is an insert, and both set if it is an equal; a set line number is
\* at least 1 and at most the number of lines of its file; and the content
\* is the line of that number of the file, terminator included.
C23_LineNumbers ==
    pc = "compared" =>
        /\ AllLineNumbersPresent(comparisons[1].hunks,
                                 splitlines_keepends(decode(data[1])),
                                 splitlines_keepends(decode(data[2])))
        /\ LinesOf(decode(data[1]), splitlines_keepends(decode(data[1])))

\* a hunk with an equal, a delete and an insert entry, the equal one on
\* different lines of the two files
C23_Witness ==
    /\ pc = "compared"
    /\ \E g \in 1..Len(comparisons[1].hunks) :
          /\ \E k \in 1..Len(comparisons[1].hunks[g].changes) :
                /\ comparisons[1].hunks[g].changes[k].change_type = "equal"
                /\ comparisons[1].hunks[g].changes[k].line_left
                     # comparisons[1].hunks[g].changes[k].line_right
          /\ \E k \in 1..Len(comparisons[1].hunks[g].changes) :
                comparisons[1].hunks[g].changes[k].change_type = "delete"
          /\ \E k \in 1..Len(comparisons[1].hunks[g].changes) :
                comparisons[1].hunks[g].changes[k].change_type = "insert"


-----------------------------------------------------------------------------
(* Properties of GitResolver (SpecGit).                                    *)

\* the command-line arguments with the git: prefix
GitRefArguments == {value \in {left, right} : is_git_ref(value)}

\* C24: temporary-directory lifecycle.  Once the GitResolver context has
\* exited, normally or because resolve_pair or the comparison raised, no
\* temporary directory the resolver created exists any more and its list of
\* temporary directories is empty, also when resolving the right side failed
\* after the left side's directory was filled, or an extraction failed part
\* way.  With no argument carrying the git: prefix no temporary directory
\* is ever created and no git call made.
C24_TmpdirLifecycle ==
    /\ pc = "exited" => (git.exists = {} /\ resolver._tmpdirs = <<>>)
    /\ GitRefArguments = {} => (git.created = 0 /\ git.calls = 0)

\* the context exited on a GitError raised while the files of the right
\* side's tree were being extracted, after the left side's directory and the
\* right side's were created
C24_Witness ==
    /\ pc = "exited"
    /\ error = "GitError"
    /\ git.side = "right"
    /\ git.created = 2
    /\ git.pending > 0
    /\ git.exists = {}


-----------------------------------------------------------------------------
(* Hunk headers (SpecText).                                                *)

\* the line numbers the entries of a hunk carry on one side, in order
LeftNumbers(changes) ==
    SelectSeq([k \in 1..Len(changes) |-> changes[k].line_left], LAMBDA x : x # None)

RightNumbers(changes) ==
    SelectSeq([k \in 1..Len(changes) |-> changes[k].line_right], LAMBDA x : x # None)

\* numbers is start, start + 1, ..., start + count - 1
RunsFrom(numbers, start, count) ==
    /\ Len(numbers) = count
    /\ \A k \in 1..count : numbers[k] = <<start + k - 1>>

\* the start of a range in a unified-diff header, first being the 0-based
\* index of its first line: an empty range begins at the line before it
UnifiedStart(first, count) == IF count = 0 THEN first ELSE first + 1

HeaderConsistent(h, first) ==
    /\ RunsFrom(LeftNumbers(h.changes), first.i1 + 1, h.count_left)
    /\ RunsFrom(RightNumbers(h.changes), first.j1 + 1, h.count_right)
    /\ h.start_left = UnifiedStart(first.i1, h.count_left)
    /\ h.start_right = UnifiedStart(first.j1, h.count_right)

HeadersConsistent(hunks, groups) ==
    \A g \in 1..Len(hunks) : HeaderConsistent(hunks[g], groups[g][1])

\* C25: hunk header consistency.  For every hunk, count_left is the number
\* of its entries that carry a left line number and count_right the number
\* that carry a right one; the left line numbers are start_left,
\* start_left + 1, ... in order and the right ones likewise; and the starts
\* and counts are those of a unified-diff header, in which a side with count
\* 0 starts at the line before the hunk.
C25_HunkHeaders ==
    (pc = "compared" /\ comparisons[1].hunks # <<>>) =>
        HeadersConsistent(comparisons[1].hunks,
                          get_grouped_opcodes(splitlines_keepends(decode(data[1])),
                                              splitlines_keepends(decode(data[2])),
                                              config.context_lines))


-----------------------------------------------------------------------------
(* Further properties of FileFilter.scan (SpecScan).                       *)

\* strictly increasing, files of the tree only, and the result of the walk
\* that lists every directory in sorted order
SortedFilesAs(paths, tree, reference) ==
    /\ paths = reference
    /\ \A i \in 1..Len(paths) : paths[i] \in DOMAIN tree.files /\ paths[i] \notin tree.dirs
    /\ \A i \in 1..(Len(paths) - 1) : LexLess(paths[i], paths[i + 1])

\* C26: scan determinism.  Whatever order the directory entries are
\* enumerated in, a scan returns the same tuple for the same tree and filter
\* config: lexicographically sorted, without duplicates, of files only.
C26_ScanDeterminism ==
    pc = "returned" =>
        SortedFilesAs(ScanResult, fs.p.tree, scan(fs.p.tree, config.filter_config))

\* a scan that was given two files of one directory in the reverse of their
\* sorted order
C26_Witness ==
    /\ pc = "returned"
    /\ Len(ScanResult) >= 3
    /\ \E i \in 1..Len(walk.result) : \E j \in 1..Len(walk.result) :
          /\ i < j
          /\ Dirname(walk.result[i]) = Dirname(walk.result[j])
          /\ LexLess(walk.result[j], walk.result[i])


-----------------------------------------------------------------------------
(* The order of loading and testing in FileFilter.scan (SpecIgnore).       *)

\* the ignore-rule files of dir and of every directory above it are loaded
LoadedAbove(tree, dir, loaded) ==
    \A above \in RuleDirs(tree, _join_posix(dir, GITIGNORE_FILENAME)) :
       above \in DOMAIN loaded /\ loaded[above] = RulesIn(tree, above)

\* the files and subdirectories of dir that pass when tested against the
\* ignore rules of the whole tree
PassingIn(tree, cfg, dir, specs) ==
    {_join_posix(dir, f) : f \in {x \in FileNames(tree, dir) : file_passes(cfg, dir, x, specs)}}

KeptIn(tree, cfg, dir, specs) ==
    {_join_posix(dir, d) : d \in ToSet(kept_dirnames(tree, cfg, dir, specs))}

\* one iteration of the walk, from the loop state st to the loop state
\* after: dir's own rules and those above are loaded, and dir's entries were
\* decided as the rules of the whole tree decide them
TestedAfterLoad(tree, cfg, dir, specs, st, after) ==
    /\ LoadedAbove(tree, dir, after.gitignore_specs)
    /\ ToSet(after.result) = ToSet(st.result) \cup PassingIn(tree, cfg, dir, specs)
    /\ ToSet(after.stack) = ToSet(Tail(st.stack)) \cup KeptIn(tree, cfg, dir, specs)

\* C27: ignore-rule load ordering.  In every iteration of a scan that
\* respects ignore rules, the directory's own ignore-rule file is loaded
\* before its files and subdirectories are tested, and the files of the root
\* and of every directory above are loaded by then: each entry is decided as
\* the ignore-rule files of the whole tree decide it, wherever else the walk
\* has been.
C27_LoadOrdering ==
    [][(pc = "walking" /\ walk.stack # <<>> /\ config.filter_config.respect_gitignore) =>
          TestedAfterLoad(fs.p.tree, config.filter_config, Head(walk.stack),
                          SpecsOf(fs.p.tree), walk, walk')]_vars

\* the walk has tested d/a after loading the rules of the root and of d,
\* with e still to come
C27_Witness ==
    /\ pc = "walking"
    /\ config.filter_config.respect_gitignore
    /\ {PathDA, PathEA} \subseteq DOMAIN fs.p.tree.files
    /\ DOMAIN walk.gitignore_specs = {<<>>, <<100>>}
    /\ walk.stack = <<<<101>>>>


-----------------------------------------------------------------------------
(* The hunks as a patch (SpecText).                                        *)

\* the entries of all hunks, in order
AllChanges(hunks) == Flatten([g \in 1..Len(hunks) |-> hunks[g].changes])

EntriesOf(changes, change_type) ==
    SelectSeq(changes, LAMBDA ch : ch.change_type = change_type)

\* the left lines that no delete entry drops, in order
KeptLines(left_lines, deletes) ==
    SelectSeq([i \in 1..Len(left_lines) |-> <<i, left_lines[i]>>],
              LAMBDA x : \A k \in 1..Len(deletes) : deletes[k].line_left # <<x[1]>>)

\* the patched sequence: at the line_right of an insert entry its content,
\* elsewhere the kept left lines in order
Patched(kept, inserts) ==
    [j \in 1..(Len(kept) + Len(inserts)) |->
        IF \E k \in 1..Len(inserts) : inserts[k].line_right = <<j>>
        THEN (inserts[CHOOSE k \in 1..Len(inserts) : inserts[k].line_right = <<j>>]).content
        ELSE kept[j - Cardinality({k \in 1..Len(inserts) :
                                      inserts[k].line_right[1] < j})][2]]

\* no line is dropped twice, none added twice, and every dropped line is a
\* line of the left file with the entry's content
EachOnce(deletes, inserts, left_lines) ==
    /\ \A k \in 1..Len(deletes) : \A m \in 1..Len(deletes) :
          deletes[k].line_left = deletes[m].line_left => k = m
    /\ \A k \in 1..Len(inserts) : \A m \in 1..Len(inserts) :
          inserts[k].line_right = inserts[m].line_right => k = m
    /\ \A k \in 1..Len(deletes) :
          /\ deletes[k].line_left[1] \in 1..Len(left_lines)
          /\ deletes[k].content = left_lines[deletes[k].line_left[1]]

\* the hunks in increasing order without overlap, on both sides
HunksIncreasing(hunks) ==
    \A g \in 1..(Len(hunks) - 1) :
       /\ hunks[g].start_left < hunks[g + 1].start_left
       /\ hunks[g].start_left + hunks[g].count_left <= hunks[g + 1].start_left
       /\ hunks[g].start_right < hunks[g + 1].start_right
       /\ hunks[g].start_right + hunks[g].count_right <= hunks[g + 1].start_right

PatchOf(hunks, deletes, inserts, left_lines, right_lines) ==
    /\ HunksIncreasing(hunks)
    /\ EachOnce(deletes, inserts, left_lines)
    /\ Patched(KeptLines(left_lines, deletes), inserts) = right_lines

PatchFor(c, changes, left_lines, right_lines) ==
    c.status = "modified" =>
        PatchOf(c.hunks, EntriesOf(changes, "delete"), EntriesOf(changes, "insert"),
                left_lines, right_lines)

\* C28: the hunks are a complete, applicable patch.  For a modified text
\* pair the hunks are in increasing order without overlap on both sides;
\* every dropped left line and every added right line is in exactly one
\* delete or insert entry; and dropping from the left lines those of the
\* delete entries and putting the content of every insert entry at its
\* line_right, all other lines kept in order, gives exactly the right lines.
C28_CompletePatch ==
    (pc = "compared" /\ ~DetectedBinary) =>
        PatchFor(comparisons[1], AllChanges(comparisons[1].hunks),
                 splitlines_keepends(decode(data[1])),
                 splitlines_keepends(decode(data[2])))

\* with no context, two hunks that drop and add lines around a kept line
\* that is in no hunk
C28_Witness ==
    /\ pc = "compared"
    /\ config.context_lines = 0
    /\ Len(comparisons[1].hunks) = 2
    /\ comparisons[1].hunks[1].count_left > 0
    /\ comparisons[1].hunks[2].count_right > 0
    /\ comparisons[1].hunks[1].count_left + comparisons[1].hunks[2].count_left
         < Len(splitlines_keepends(decode(data[1])))


-----------------------------------------------------------------------------
(* TextComparator and ContentComparator on the same pair (SpecText).       *)

\* the status ContentComparator.compare gives the pair
ContentStatus == content_compare(fs, config.hash_algo, left, right, <<>>).status

\* the two comparators agree that the pair is identical, and it is iff the
\* two files hold the same bytes
DepthsAgree(c, content_status, left_bytes, right_bytes) ==
    /\ c.status = "identical" <=> content_status = "identical"
    /\ c.status = "identical" <=> left_bytes = right_bytes

\* C29: cross-depth agreement.  For every pair of existing regular files,
\* text or binary, TextComparator reports identical iff ContentComparator
\* reports identical, that is iff the two files are equal byte for byte.
C29_CrossDepthAgreement ==
    pc = "compared" => DepthsAgree(comparisons[1], ContentStatus, data[1], data[2])

\* the part that holds: equal files are identical for both comparators, a
\* pair compared as binary is judged alike by both, and what
\* ContentComparator reports identical TextComparator does too
AgreementOnEqualBytes ==
    pc = "compared" =>
        /\ ContentStatus = "identical" <=> data[1] = data[2]
        /\ data[1] = data[2] => comparisons[1].status = "identical"
        /\ DetectedBinary =>
              (comparisons[1].status = "identical" <=> ContentStatus = "identical")
        /\ comparisons[1].status = "identical" <=> 
              (IF DetectedBinary THEN data[1] = data[2]
               ELSE decode(data[1]) = decode(data[2]))


-----------------------------------------------------------------------------
(* Comparator.compare with its two arguments exchanged (Spec).             *)

\* the comparisons of compare(right, left) at the depth of the run
SwappedComparisons ==
    IF depth = "structure"
    THEN structure_compare(fs, config.filter_config, right, left)
    ELSE content_enrich(fs, config,
                        structure_compare(fs, config.filter_config, right, left))

SwappedStatus(status) ==
    IF status = "added" THEN "removed"
    ELSE IF status = "removed" THEN "added"
    ELSE status

\* entry s is entry c with the two sides exchanged
SwappedEntry(c, s) ==
    /\ s.relative_path = c.relative_path
    /\ s.status = SwappedStatus(c.status)
    /\ s.left_path = c.right_path
    /\ s.right_path = c.left_path
    /\ s.content_hash_left = c.content_hash_right
    /\ s.content_hash_right = c.content_hash_left
    /\ s.similarity = c.similarity

SwappedStats(stats, swapped) ==
    /\ swapped.total_files = stats.total_files
    /\ swapped.identical = stats.identical
    /\ swapped.modified = stats.modified
    /\ swapped.added = stats.removed
    /\ swapped.removed = stats.added

SwapSymmetric(r, swapped) ==
    /\ Len(swapped) = Len(r.comparisons)
    /\ \A i \in 1..Len(swapped) : SwappedEntry(r.comparisons[i], swapped[i])
    /\ SwappedStats(r.stats, from_comparisons(swapped))

\* C30: swap symmetry.  For two directories and any filter config, at
\* structure and at content depth compare(right, left) returns the relative
\* paths of compare(left, right) in the same order, with added and removed
\* exchanged, identical and modified unchanged, the two paths and the two
\* content hashes of every entry exchanged, and the added and removed counts
\* of the stats exchanged.
C30_SwapSymmetry ==
    (/\ pc = "done"
     /\ depth \in {"structure", "content"}
     /\ is_dir(fs, left) /\ is_dir(fs, right)) =>
        SwapSymmetric(result[1], SwappedComparisons)

\* a content run over two directories with an added, a removed and a
\* modified entry
C30_Witness ==
    /\ pc = "done"
    /\ depth = "content"
    /\ is_dir(fs, left) /\ is_dir(fs, right)
    /\ left # right
    /\ result[1].stats.added > 0
    /\ result[1].stats.removed > 0
    /\ result[1].stats.modified > 0

====
